---- MODULE Spec2Model ----
(***************************************************************************)
(* Debt tracker: the three dashboard pages (first and second dashboard of  *)
(* part_003, third dashboard of part_004) over one remote store of cards,  *)
(* statements and payments.  A page loads a snapshot of the store and      *)
(* derives paid / pending / totals / upcoming-due from it on every render. *)
(*                                                                         *)
(* Values.  A JavaScript value that the code coerces to a number is a      *)
(* tagged record: a number, null, a non-numeric string, or NaN.  A date    *)
(* string "YYYY-MM-DD" is a record of its three numeric fields (the text   *)
(* is zero-padded, as a date column prints it), or null.  Times are in     *)
(* hours since the epoch instead of milliseconds: every time the code      *)
(* compares is a whole number of hours.                                    *)
(***************************************************************************)
EXTENDS Integers, Sequences, FiniteSets, TLC

\* ------------------------------------------------------------------ bounds
MaxAmount == 2
NumPayments == 2
MaxDaysPassed == 1
MaxNewStatements == 1
MantissaBits == 13
MaxNewPayments == 1
MaxNewCards == 1

\* ---------------------------------------------------------------- values
Null == "null"

Num(n) == [t |-> "num", v |-> n]
NullV == [t |-> "null", v |-> 0]
BadV == [t |-> "str", v |-> 0]
NaN == [t |-> "nan", v |-> 0]

\* Number(v): null -> 0, a non-numeric string -> NaN
Number(v) == IF v.t = "num" THEN v ELSE IF v.t = "null" THEN Num(0) ELSE NaN

\* v ?? 0
OrZero(v) == IF v.t = "null" THEN Num(0) ELSE v

isFinite(n) == n.t = "num"

\* the spacing of the doubles around the magnitude n, in units of the smallest
\* amount: a number keeps MantissaBits significant bits
RECURSIVE Ulp(_)
Ulp(n) == IF n < 2^MantissaBits THEN 1 ELSE 2 * Ulp(n \div 2)

\* the magnitude a rounded to the spacing u, ties to the even mantissa
RoundTo(a, u) ==
  IF 2 * (a % u) > u \/ (2 * (a % u) = u /\ (a \div u) % 2 = 1)
  THEN ((a \div u) + 1) * u
  ELSE (a \div u) * u

\* the double nearest to the integer x
NearestFloat(x) ==
  IF x < 2^MantissaBits /\ 0 - x < 2^MantissaBits THEN x
  ELSE IF x < 0 THEN 0 - RoundTo(0 - x, Ulp(0 - x)) ELSE RoundTo(x, Ulp(x))

\* the largest amount whose neighbours are one unit away
BigAmount == 2^MantissaBits

\* x + y and x - y on numbers: the double nearest to the exact result
AddValues(x, y) == IF x.t = "num" /\ y.t = "num" THEN Num(NearestFloat(x.v + y.v)) ELSE NaN

SubValues(x, y) == IF x.t = "num" /\ y.t = "num" THEN Num(NearestFloat(x.v - y.v)) ELSE NaN

\* a + b and a - b, each operand evaluated once
Plus(a, b) == CHOOSE r \in {AddValues(x, y) : x \in {a}, y \in {b}} : TRUE

Minus(a, b) == CHOOSE r \in {SubValues(x, y) : x \in {a}, y \in {b}} : TRUE

\* Math.max(0, n): NaN when n is NaN
MathMax0(n) == IF n.t = "num" THEN (IF n.v > 0 THEN n ELSE Num(0)) ELSE NaN

\* n <= 0: false when n is NaN
LeqZero(n) == n.t = "num" /\ n.v <= 0

safeNum(v) == LET n == Number(v) IN IF isFinite(n) THEN n ELSE Num(0)

\* truthiness of a string or null (the empty string and null are falsy)
Truthy(s) == s # Null /\ s # ""

\* Map.get(k) ?? 0
MapGet0(m, k) == IF k \in DOMAIN m THEN m[k] ELSE Num(0)

\* Map.set(k, v)
MapSet(m, k, v) == (k :> v) @@ m

EmptyMap == [x \in {} |-> Num(0)]

\* ------------------------------------------------------------- calendar
HoursPerDay == 24
WindowDays == 30

NoDate == [t |-> "null", y |-> 0, m |-> 0, d |-> 0]
DateStr(y, m, d) == [t |-> "str", y |-> y, m |-> m, d |-> d]

IsLeap(y) == (y % 4 = 0 /\ y % 100 # 0) \/ y % 400 = 0

DaysInMonth(y, m) == IF m = 2 THEN (IF IsLeap(y) THEN 29 ELSE 28)
                     ELSE IF m \in {4, 6, 9, 11} THEN 30 ELSE 31

LeapsBefore(y) == ((y - 1) \div 4) - ((y - 1) \div 100) + ((y - 1) \div 400)

\* days from 1970-01-01 to y-01-01
DaysBeforeYear(y) == 365 * (y - 1970) + LeapsBefore(y) - LeapsBefore(1970)

RECURSIVE DaysBeforeMonth(_, _)
DaysBeforeMonth(y, m) == IF m <= 1 THEN 0 ELSE DaysInMonth(y, m - 1) + DaysBeforeMonth(y, m - 1)

\* new Date(y, monthIndex, d) in local time, as a calendar day number: the
\* month index and the day roll over into the following months and years
DateLocal(y, monthIndex, d) ==
  LET yy == y + (monthIndex \div 12)
      mm == (monthIndex % 12) + 1
  IN DaysBeforeYear(yy) + DaysBeforeMonth(yy, mm) + (d - 1)

\* getFullYear / getMonth + 1 / getDate of a calendar day number
YearOfDay(n) == CHOOSE y \in 2024..2027 : DaysBeforeYear(y) <= n /\ n < DaysBeforeYear(y + 1)

MonthOfDay(n) ==
  LET y == YearOfDay(n)
      r == n - DaysBeforeYear(y)
  IN CHOOSE m \in 1..12 : DaysBeforeMonth(y, m) <= r /\ r < DaysBeforeMonth(y, m) + DaysInMonth(y, m)

DayOfDay(n) ==
  LET y == YearOfDay(n)
  IN n - DaysBeforeYear(y) - DaysBeforeMonth(y, MonthOfDay(n)) + 1

\* `${yyyy}-${mm}-${dd}` of a calendar day number
FormatDay(n) == DateStr(YearOfDay(n), MonthOfDay(n), DayOfDay(n))

\* a date string names a calendar date
ValidDate(s) == s.t = "str" /\ s.m \in 1..12 /\ s.d \in 1..DaysInMonth(s.y, s.m)

\* a.due_date < b.due_date on zero-padded strings
StrLess(a, b) ==
  \/ a.y < b.y
  \/ a.y = b.y /\ a.m < b.m
  \/ a.y = b.y /\ a.m = b.m /\ a.d < b.d

\* local midnight of calendar day n at UTC offset tz, in hours since the epoch
LocalMidnight(n, tzOff) == n * HoursPerDay - tzOff

\* Date.parse("YYYY-MM-DD"): UTC midnight of a valid date, NaN otherwise
DateParse(s) == IF ValidDate(s) THEN Num(DateLocal(s.y, s.m - 1, s.d) * HoursPerDay) ELSE NaN

\* new Date(s + "T00:00:00").getTime(): local midnight of a valid date
DateParseLocal(s, tzOff) ==
  IF ValidDate(s) THEN Num(LocalMidnight(DateLocal(s.y, s.m - 1, s.d), tzOff)) ELSE NaN

\* ============================================================ sequences
Range(f) == {f[i] : i \in DOMAIN f}

\* the orders in which a query can return a set of rows
SeqsOf(S) == {q \in [1..Cardinality(S) -> S] : Range(q) = S}

\* .limit(n)
Limit(q, n) == IF Len(q) <= n THEN q ELSE SubSeq(q, 1, n)

PaymentsLimit == 50

\* ===================================================== first dashboard
\* (part_003, lines 1-955)
\* the loop over the payments lo..hi, the map being m before it; the first
\* half is run before the second
RECURSIVE D1_paidLoop(_, _, _, _)
D1_paidLoop(ps, lo, hi, m) ==
  IF lo > hi THEN m
  ELSE IF lo = hi
  THEN LET p == ps[lo]
       IN IF ~Truthy(p.statement_id) THEN m
          ELSE MapSet(m, p.statement_id, Plus(MapGet0(m, p.statement_id), safeNum(p.amount)))
  ELSE LET mid == (lo + hi) \div 2
       IN CHOOSE r \in {D1_paidLoop(ps, mid + 1, hi, half) : half \in {D1_paidLoop(ps, lo, mid, m)}} : TRUE

D1_paidByStatement(ps) == D1_paidLoop(ps, 1, Len(ps), EmptyMap)

\* variant: the statement list without the clamp
D1_pending_unclamped(s, pm) == Minus(safeNum(s.statement_amount), MapGet0(pm, s.id))

\* the pending of one statement, as the statement list and the rollup compute it
D1_pending(s, pm) ==
  LET amount == safeNum(s.statement_amount)
      paid == MapGet0(pm, s.id)
  IN MathMax0(Minus(amount, paid))

RECURSIVE D1_pendingLoop(_, _, _, _)
D1_pendingLoop(ss, pm, i, m) ==
  IF i > Len(ss) THEN m
  ELSE LET s == ss[i]
           amount == safeNum(s.statement_amount)
           paid == MapGet0(pm, s.id)
           pending == MathMax0(Minus(amount, paid))
       IN D1_pendingLoop(ss, pm, i + 1,
            MapSet(m, s.card_id, Plus(MapGet0(m, s.card_id), pending)))

D1_pendingByCard(ss, pm) == D1_pendingLoop(ss, pm, 1, EmptyMap)

RECURSIVE D1_totalLimitLoop(_, _, _)
D1_totalLimitLoop(cs, i, a) ==
  IF i > Len(cs) THEN a ELSE D1_totalLimitLoop(cs, i + 1, Plus(a, safeNum(cs[i].credit_limit)))

RECURSIVE D1_totalPendingLoop(_, _, _, _)
D1_totalPendingLoop(cs, pend, i, a) ==
  IF i > Len(cs) THEN a
  ELSE D1_totalPendingLoop(cs, pend, i + 1, Plus(a, MapGet0(pend, cs[i].id)))

D1_totals(cs, pend) ==
  [totalLimit |-> D1_totalLimitLoop(cs, 1, Num(0)),
   totalPending |-> D1_totalPendingLoop(cs, pend, 1, Num(0))]

\* the rows of upcomingDue before the sort; today is the payment form's date (asOf)
RECURSIVE D1_upcomingLoop(_, _, _, _, _)
D1_upcomingLoop(ss, pm, asOf, i, rows) ==
  IF i > Len(ss) THEN rows
  ELSE LET s == ss[i]
           todayObj == DateLocal(asOf.y, asOf.m - 1, asOf.d)
           in30 == DateLocal(asOf.y, asOf.m - 1, asOf.d + WindowDays)
           pending == MathMax0(Minus(safeNum(s.statement_amount), MapGet0(pm, s.id)))
           due == s.due_date
           dueObj == DateLocal(due.y, due.m - 1, due.d)
           skip == \/ due.t = "null"
                   \/ LeqZero(pending)
                   \/ due.y = 0 \/ due.m = 0 \/ due.d = 0
                   \/ dueObj < todayObj \/ dueObj > in30
       IN D1_upcomingLoop(ss, pm, asOf, i + 1,
            IF skip THEN rows
            ELSE Append(rows, [id |-> s.id, card_id |-> s.card_id, due_date |-> due, pending |-> pending]))

D1_upcomingRows(ss, pm, asOf) ==
  IF asOf.t = "null" \/ asOf.y = 0 \/ asOf.m = 0 \/ asOf.d = 0 THEN <<>>
  ELSE D1_upcomingLoop(ss, pm, asOf, 1, <<>>)

\* rows.sort((a, b) => (a.due_date < b.due_date ? -1 : 1)): the comparator
\* never answers 0, so the place of rows with equal due dates is left to the
\* engine; every outcome is ascending by due date
D1_sort(rows) ==
  {q \in SeqsOf(Range(rows)) : \A i, j \in 1..Len(q) : i < j => ~StrLess(q[j].due_date, q[i].due_date)}

D1_upcomingDue(ss, pm, asOf) ==
  D1_sort(D1_upcomingRows(ss, pm, asOf))

\* ==================================================== second dashboard
\* (part_003, lines 956-1836)
\* the loop over the payments lo..hi, the map being m before it; the first
\* half is run before the second
RECURSIVE D2_paidLoop(_, _, _, _)
D2_paidLoop(ps, lo, hi, m) ==
  IF lo > hi THEN m
  ELSE IF lo = hi
  THEN LET p == ps[lo]
           prev == MapGet0(m, p.statement_id)
       IN IF ~Truthy(p.statement_id) THEN m
          ELSE MapSet(m, p.statement_id, Plus(prev, Number(OrZero(p.amount))))
  ELSE LET mid == (lo + hi) \div 2
       IN CHOOSE r \in {D2_paidLoop(ps, mid + 1, hi, half) : half \in {D2_paidLoop(ps, lo, mid, m)}} : TRUE

\* variant: map.set(statement_id, amount), the previous sum is dropped
RECURSIVE D2_paidLoop_overwrite(_, _, _, _)
D2_paidLoop_overwrite(ps, lo, hi, m) ==
  IF lo > hi THEN m
  ELSE IF lo = hi
  THEN LET p == ps[lo]
       IN IF ~Truthy(p.statement_id) THEN m
          ELSE MapSet(m, p.statement_id, Number(OrZero(p.amount)))
  ELSE LET mid == (lo + hi) \div 2
       IN CHOOSE r \in {D2_paidLoop_overwrite(ps, mid + 1, hi, half) : half \in {D2_paidLoop_overwrite(ps, lo, mid, m)}} : TRUE

D2_paidMap_overwrite(ps) == D2_paidLoop_overwrite(ps, 1, Len(ps), EmptyMap)

D2_paidMap(ps) == D2_paidLoop(ps, 1, Len(ps), EmptyMap)

D2_pending(s, pm) ==
  LET amount == Number(OrZero(s.statement_amount))
      paid == MapGet0(pm, s.id)
  IN MathMax0(Minus(amount, paid))

RECURSIVE D2_pendingLoop(_, _, _, _)
D2_pendingLoop(ss, pm, i, m) ==
  IF i > Len(ss) THEN m
  ELSE LET s == ss[i]
           amount == Number(OrZero(s.statement_amount))
           paid == MapGet0(pm, s.id)
           pending == MathMax0(Minus(amount, paid))
           prev == MapGet0(m, s.card_id)
       IN D2_pendingLoop(ss, pm, i + 1, MapSet(m, s.card_id, Plus(prev, pending)))

\* variant: the rollup skips a statement that has no due date
RECURSIVE D2_pendingLoop_dueOnly(_, _, _, _)
D2_pendingLoop_dueOnly(ss, pm, i, m) ==
  IF i > Len(ss) THEN m
  ELSE LET s == ss[i]
           pending == MathMax0(Minus(Number(OrZero(s.statement_amount)), MapGet0(pm, s.id)))
       IN IF s.due_date.t = "null" THEN D2_pendingLoop_dueOnly(ss, pm, i + 1, m)
          ELSE D2_pendingLoop_dueOnly(ss, pm, i + 1,
                 MapSet(m, s.card_id, Plus(MapGet0(m, s.card_id), pending)))

D2_pendingByCard_dueOnly(ss, pm) == D2_pendingLoop_dueOnly(ss, pm, 1, EmptyMap)

D2_pendingByCard(ss, pm) == D2_pendingLoop(ss, pm, 1, EmptyMap)

RECURSIVE D2_totalLimitLoop(_, _, _)
D2_totalLimitLoop(cs, i, a) ==
  IF i > Len(cs) THEN a ELSE D2_totalLimitLoop(cs, i + 1, Plus(a, Number(OrZero(cs[i].credit_limit))))

D2_totalLimit(cs) == D2_totalLimitLoop(cs, 1, Num(0))

\* for (const v of pendingByCard.values()) t += v
RECURSIVE D2_valuesLoop(_, _, _)
D2_valuesLoop(pend, keys, tot) ==
  IF keys = {} THEN tot
  ELSE LET k == CHOOSE x \in keys : TRUE
       IN D2_valuesLoop(pend, keys \ {k}, Plus(tot, pend[k]))

D2_totalPending(pend) == D2_valuesLoop(pend, DOMAIN pend, Num(0))

\* Math.round(h / 24) of a whole number of hours
RoundDays(h) == (2 * h + HoursPerDay) \div (2 * HoursPerDay)

\* Math.ceil(h / 24) of a whole number of hours
CeilDays(h) == -((-h) \div HoursPerDay)

\* the list of upcomingDue before the sort; today is the clock's local date
RECURSIVE D2_upcomingLoop(_, _, _, _, _, _)
D2_upcomingLoop(ss, pm, nowDay, tzOff, i, list) ==
  IF i > Len(ss) THEN list
  ELSE LET s == ss[i]
           start == LocalMidnight(nowDay, tzOff)
           end == start + WindowDays * HoursPerDay
           dueT == DateParse(s.due_date)
           amount == Number(OrZero(s.statement_amount))
           paid == MapGet0(pm, s.id)
           pending == MathMax0(Minus(amount, paid))
           skip == \/ s.due_date.t = "null"
                   \/ ~isFinite(dueT)
                   \/ dueT.v < start \/ dueT.v > end
       IN D2_upcomingLoop(ss, pm, nowDay, tzOff, i + 1,
            IF skip THEN list
            ELSE Append(list, [id |-> s.id, card_id |-> s.card_id, due_date |-> s.due_date,
                               pending |-> pending, days |-> RoundDays(dueT.v - start)]))

D2_upcomingRows(ss, pm, nowDay, tzOff, isMounted) ==
  IF ~isMounted THEN <<>> ELSE D2_upcomingLoop(ss, pm, nowDay, tzOff, 1, <<>>)

\* list.sort((a, b) => a.days - b.days): a stable sort, rows with equal days
\* keep the order of the list
RECURSIVE InsertByDays(_, _)
InsertByDays(sorted, r) ==
  IF sorted = <<>> THEN <<r>>
  ELSE IF sorted[Len(sorted)].days <= r.days THEN Append(sorted, r)
  ELSE Append(InsertByDays(SubSeq(sorted, 1, Len(sorted) - 1), r), sorted[Len(sorted)])

RECURSIVE D2_sortLoop(_, _, _)
D2_sortLoop(list, i, sorted) ==
  IF i > Len(list) THEN sorted ELSE D2_sortLoop(list, i + 1, InsertByDays(sorted, list[i]))

D2_sort(list) == {D2_sortLoop(list, 1, <<>>)}

D2_upcomingDue(ss, pm, nowDay, tzOff, isMounted) == D2_sort(D2_upcomingRows(ss, pm, nowDay, tzOff, isMounted))

\* ===================================================== third dashboard
\* (part_004)
\* the loop over the payments lo..hi, the map being m before it; the first
\* half is run before the second
RECURSIVE D3_paidLoop(_, _, _, _)
D3_paidLoop(ps, lo, hi, m) ==
  IF lo > hi THEN m
  ELSE IF lo = hi
  THEN LET p == ps[lo]
           amt == Number(OrZero(p.amount))
       IN IF ~Truthy(p.statement_id) THEN m
          ELSE IF ~isFinite(amt) THEN m
          ELSE MapSet(m, p.statement_id, Plus(MapGet0(m, p.statement_id), amt))
  ELSE LET mid == (lo + hi) \div 2
       IN CHOOSE r \in {D3_paidLoop(ps, mid + 1, hi, half) : half \in {D3_paidLoop(ps, lo, mid, m)}} : TRUE

D3_paidByStatement(ps) == D3_paidLoop(ps, 1, Len(ps), EmptyMap)

\* variant: the statement list clamps, the rollup and the upcoming list do not
D3_pending_clamped(s, pm) == MathMax0(Minus(Number(OrZero(s.statement_amount)), MapGet0(pm, s.id)))

D3_pending(s, pm) ==
  LET amount == Number(OrZero(s.statement_amount))
      paid == MapGet0(pm, s.id)
  IN Minus(amount, paid)

RECURSIVE D3_pendingLoop(_, _, _, _)
D3_pendingLoop(ss, pm, i, m) ==
  IF i > Len(ss) THEN m
  ELSE LET s == ss[i]
           amount == Number(OrZero(s.statement_amount))
           paid == MapGet0(pm, s.id)
           pending == Minus(amount, paid)
       IN D3_pendingLoop(ss, pm, i + 1, MapSet(m, s.card_id, Plus(MapGet0(m, s.card_id), pending)))

D3_pendingByCard(ss, pm) == D3_pendingLoop(ss, pm, 1, EmptyMap)

RECURSIVE D3_totalLimitLoop(_, _, _)
D3_totalLimitLoop(cs, i, sum) ==
  IF i > Len(cs) THEN sum ELSE D3_totalLimitLoop(cs, i + 1, Plus(sum, Number(OrZero(cs[i].credit_limit))))

D3_totalLimit(cs) == D3_totalLimitLoop(cs, 1, Num(0))

RECURSIVE D3_totalPendingLoop(_, _, _, _)
D3_totalPendingLoop(ss, pm, i, sum) ==
  IF i > Len(ss) THEN sum
  ELSE LET s == ss[i]
           amount == Number(OrZero(s.statement_amount))
           paid == MapGet0(pm, s.id)
       IN D3_totalPendingLoop(ss, pm, i + 1, Plus(sum, Minus(amount, paid)))

D3_totalPending(ss, pm) == D3_totalPendingLoop(ss, pm, 1, Num(0))

\* the list of upcomingDue before the sort; today is the date string taken at mount
RECURSIVE D3_upcomingLoop(_, _, _, _, _, _)
D3_upcomingLoop(ss, pm, asOf, tzOff, i, list) ==
  IF i > Len(ss) THEN list
  ELSE LET s == ss[i]
           today == DateParseLocal(asOf, tzOff)
           todayDay == (today.v + tzOff) \div HoursPerDay
           in30 == IF isFinite(today)
                   THEN Num(LocalMidnight(DateLocal(YearOfDay(todayDay), MonthOfDay(todayDay) - 1,
                                                    DayOfDay(todayDay) + WindowDays), tzOff))
                   ELSE NaN
           due == DateParseLocal(s.due_date, tzOff)
           amount == Number(OrZero(s.statement_amount))
           paid == MapGet0(pm, s.id)
           pending == Minus(amount, paid)
           skip == \/ s.due_date.t = "null"
                   \/ ~isFinite(due)
                   \/ LeqZero(pending)
                   \/ ~(isFinite(today) /\ due.v >= today.v /\ due.v <= in30.v)
       IN D3_upcomingLoop(ss, pm, asOf, tzOff, i + 1,
            IF skip THEN list
            ELSE Append(list, [id |-> s.id, card_id |-> s.card_id, due_date |-> s.due_date,
                               pending |-> pending, days |-> CeilDays(due.v - today.v)]))

D3_upcomingRows(ss, pm, asOf, tzOff) ==
  IF asOf.t = "null" THEN <<>> ELSE D3_upcomingLoop(ss, pm, asOf, tzOff, 1, <<>>)

\* list.sort((a, b) => (a.due_date > b.due_date ? 1 : -1)): as in the first
\* dashboard, the place of rows with equal due dates is left to the engine
D3_sort(list) ==
  {q \in SeqsOf(Range(list)) : \A i, j \in 1..Len(q) : i < j => ~StrLess(q[j].due_date, q[i].due_date)}

D3_upcomingDue(ss, pm, asOf, tzOff) == D3_sort(D3_upcomingRows(ss, pm, asOf, tzOff))

\* ========================================================= month starts
\* a string is the sequence of its characters
\* null where a string is expected
NullText == <<Null>>

DigitChars == <<"0", "1", "2", "3", "4", "5", "6", "7", "8", "9">>

IsDigit(c) == \E i \in DOMAIN DigitChars : DigitChars[i] = c

DigitValue(c) == (CHOOSE i \in DOMAIN DigitChars : DigitChars[i] = c) - 1

\* String(n) of a natural number
RECURSIVE String(_)
String(n) == IF n < 10 THEN <<DigitChars[n + 1]>> ELSE String(n \div 10) \o <<DigitChars[(n % 10) + 1]>>

\* s.padStart(len, "0")
RECURSIVE padStart(_, _)
padStart(s, len) == IF Len(s) >= len THEN s ELSE padStart(<<"0">> \o s, len)

RECURSIVE DecimalValue(_)
DecimalValue(s) ==
  IF s = <<>> THEN 0 ELSE DecimalValue(SubSeq(s, 1, Len(s) - 1)) * 10 + DigitValue(s[Len(s)])

\* Number(s) of a string: its decimal value, 0 for the empty string, NaN for other text
NumberOfText(s) == IF \A i \in 1..Len(s) : IsDigit(s[i]) THEN Num(DecimalValue(s)) ELSE NaN

\* truthiness of a number (0 and NaN are falsy)
TruthyNum(n) == n.t = "num" /\ n.v # 0

\* s.split("-")
RECURSIVE split(_)
split(s) ==
  IF \A i \in 1..Len(s) : s[i] # "-" THEN <<s>>
  ELSE LET k == CHOOSE i \in 1..Len(s) : s[i] = "-" /\ \A j \in 1..(i - 1) : s[j] # "-"
       IN <<SubSeq(s, 1, k - 1)>> \o split(SubSeq(s, k + 1, Len(s)))

\* s.slice(a, b)
slice(s, a, b) == SubSeq(s, a + 1, IF b < Len(s) THEN b ELSE Len(s))

\* `${y}-${m}-01`
MonthStart(y, m) == y \o <<"-">> \o m \o <<"-", "0", "1">>

\* the text YYYY-MM-DD of a year, a month and a day
DateText(y, m, d) ==
  padStart(String(y), 4) \o <<"-">> \o padStart(String(m), 2) \o <<"-">> \o padStart(String(d), 2)

\* first dashboard
toFirstOfMonth(dateStr) ==
  IF dateStr = <<>> THEN <<>>
  ELSE LET parts == split(dateStr)
           y == NumberOfText(parts[1])
           m == IF Len(parts) >= 2 THEN NumberOfText(parts[2]) ELSE NaN
       IN IF ~TruthyNum(y) \/ ~TruthyNum(m) THEN <<>>
          ELSE MonthStart(String(y.v), padStart(String(m.v), 2))

\* second dashboard
monthFirstDay(input) ==
  IF input = <<>> \/ Len(input) < 7 THEN input
  ELSE MonthStart(slice(input, 0, 4), slice(input, 5, 7))

\* third dashboard
firstDayOfMonth(dateStr) ==
  IF dateStr = <<>> \/ Len(dateStr) < 10 THEN NullText
  ELSE LET y == slice(dateStr, 0, 4)
           m == slice(dateStr, 5, 7)
       IN IF y = <<>> \/ m = <<>> THEN NullText ELSE MonthStart(y, m)

\* statements page
normalizeMonthStart(input) ==
  LET parts == split(input)
  IN IF Len(parts) >= 2 /\ parts[1] # <<>> /\ parts[2] # <<>> THEN MonthStart(parts[1], parts[2])
     ELSE input

\* ================================================================ state
VARIABLES
  dbCards,       \* the store: the signed-in user's rows of table cards
  dbStatements,  \* ... of table statements
  dbPayments,    \* ... of table payments
  today,         \* the client clock's local calendar day
  tz,            \* the client's UTC offset in hours
  page,          \* the dashboard that is open: "D1", "D2" or "D3" ("" before one is opened)
  mounted,       \* its mount effects have run
  cards,         \* the loaded snapshot
  statements,
  payments,
  payDate,       \* the payment form's date field
  mountedToday,  \* third dashboard: the date string taken at mount
  lastOp,        \* the handler that ran last, with the link it changed
  payForm,       \* payments page: the selects of the form (kind, cardId, statementId, ...)
  call,          \* the helper that was applied last, with its argument and result
  forms          \* first dashboard: the tab, the card and payment forms

vars == <<dbCards, dbStatements, dbPayments, today, tz, page, mounted,
          cards, statements, payments, payDate, mountedToday, lastOp, payForm, call, forms>>

NoOp == [op |-> "", id |-> Null, from |-> Null, to |-> Null]

\* useState("OVERVIEW") and the empty card and payment forms; an empty text
\* field is NullV (cName: 0), a filled one the number typed
NoForms ==
  [tab |-> "OVERVIEW",
   editingCardId |-> "", cName |-> 0, cLimit |-> NullV,
   editingPaymentId |-> "", payCardId |-> "", payStatementId |-> "", payAmount |-> NullV]

\* useState("CARD"), and useState("") for the four selects
NoForm == [kind |-> "CARD", cardId |-> "", statementId |-> "", loanId |-> "", personalId |-> ""]

NoCall == [fn |-> "", arg |-> NullText, res |-> NullText]

Pages == {"D1", "D2", "D3"}

\* the signed-in user; every query filters on it and the store holds its rows
userId == "U1"

\* ------------------------------------------------------------- the store
CardIds == {"C1", "C2"}
OrphanCardId == "C9"
StatementIds == {"S1", "S2"}
PaymentIds == <<"P1", "P2", "P3", "P4">>

\* 2025-01-10, the clock's local date
Today0 == DateLocal(2025, 0, 10)

\* name and created_at are the ranks of the values in their sort orders
CardRows ==
  {[id |-> "C1", name |-> 1, created_at |-> 1, credit_limit |-> Num(5), deleted_at |-> NoDate],
   [id |-> "C2", name |-> 2, created_at |-> 2, credit_limit |-> NullV, deleted_at |-> NoDate]}

\* statement months: one month for all, or a month of its own for each
SameMonth == [id \in StatementIds |-> DateStr(2025, 1, 1)]
OwnMonth == [id \in StatementIds |-> IF id = "S1" THEN DateStr(2025, 1, 1) ELSE DateStr(2024, 12, 1)]

\* payment dates: one date for all, or a date of its own for each
SameDate == [i \in 1..NumPayments |-> FormatDay(Today0)]
OwnDate == [i \in 1..NumPayments |-> FormatDay(Today0 - i)]

\* the ways to give every statement a value of its own set
PerStatement(setOf) ==
  {f \in [StatementIds -> UNION {setOf[k] : k \in StatementIds}] : \A k \in StatementIds : f[k] \in setOf[k]}

\* the stores with the statements StatementIds and NumPayments payments whose
\* fields are drawn from the given sets
Stores(cardsOf, billedOf, duesOf, monthOf, paySids, payAmounts, dateOf) ==
  {[s |-> {[id |-> k, card_id |-> c[k], statement_month |-> monthOf[k], due_date |-> d[k],
            statement_amount |-> a[k]] : k \in StatementIds},
    p |-> {[id |-> PaymentIds[i], card_id |-> "C1", statement_id |-> ps[i], payment_date |-> dateOf[i],
            amount |-> pa[i]] : i \in 1..NumPayments}] :
     c \in PerStatement(cardsOf), d \in PerStatement(duesOf), a \in PerStatement(billedOf),
     ps \in [1..NumPayments -> paySids], pa \in [1..NumPayments -> payAmounts]}

\* the state of a page before its first effect runs, over a store
InitOf(cardSets, stores, tzs) ==
  /\ \E st \in stores : dbStatements = st.s /\ dbPayments = st.p
  /\ dbCards \in cardSets
  /\ today = Today0
  /\ tz \in tzs
  /\ page = ""
  /\ mounted = FALSE
  /\ cards = <<>>
  /\ statements = <<>>
  /\ payments = <<>>
  /\ payDate = NoDate
  /\ mountedToday = NoDate
  /\ lastOp = NoOp
  /\ payForm = NoForm
  /\ call = NoCall
  /\ forms = NoForms

InitWith(stores, tzs) == InitOf({CardRows}, stores, tzs)

\* ------------------------------------------------------------- queries
ByCreatedDesc(a, b) == a.created_at > b.created_at
ByNameAsc(a, b) == a.name < b.name
ByMonthDesc(a, b) == StrLess(b.statement_month, a.statement_month)
ByPaymentDateDesc(a, b) == StrLess(b.payment_date, a.payment_date)

\* row a comes before row b in the order of the key
Before(key, a, b) ==
  IF key = "created_at desc" THEN ByCreatedDesc(a, b)
  ELSE IF key = "name" THEN ByNameAsc(a, b)
  ELSE IF key = "statement_month desc" THEN ByMonthDesc(a, b)
  ELSE ByPaymentDateDesc(a, b)

\* .order(key): rows in key order, rows with equal keys in any order
RECURSIVE Ordered(_, _)
Ordered(S, key) ==
  IF S = {} THEN {<<>>}
  ELSE UNION {{<<m>> \o q : q \in Ordered(S \ {m}, key)} :
                m \in {x \in S : \A y \in S : ~Before(key, y, x)}}

\* loadAll: the three reads, and the three setters
D1_loadAll ==
  /\ cards' \in Ordered(dbCards', "created_at desc")
  /\ statements' \in Ordered(dbStatements', "statement_month desc")
  /\ payments' \in {Limit(q, PaymentsLimit) : q \in Ordered(dbPayments', "payment_date desc")}

D2_loadAll ==
  /\ cards' \in Ordered(dbCards', "name")
  /\ statements' \in Ordered(dbStatements', "statement_month desc")
  /\ payments' \in {Limit(q, PaymentsLimit) : q \in Ordered(dbPayments', "payment_date desc")}

D3_loadAll ==
  /\ cards' \in Ordered(dbCards', "created_at desc")
  /\ statements' \in Ordered(dbStatements', "statement_month desc")
  /\ payments' \in {Limit(q, PaymentsLimit) : q \in Ordered(dbPayments', "payment_date desc")}

\* ------------------------------------------------------- mount effects
\* new Date().toISOString().slice(0, 10): the UTC date, which is the local
\* date or a neighbour of it, by the hour of the day
UtcDays == {today + ((h - tz) \div HoursPerDay) : h \in 0..(HoursPerDay - 1)}

D1_mount ==
  /\ page = ""
  /\ page' = "D1"
  /\ mounted' = TRUE
  /\ lastOp' = [op |-> "mount", id |-> Null, from |-> Null, to |-> Null]
  /\ \E u \in UtcDays : payDate' = FormatDay(u)
  /\ UNCHANGED <<dbCards, dbStatements, dbPayments, today, tz, mountedToday, payForm, call, forms>>
  /\ D1_loadAll

D2_mount ==
  /\ page = ""
  /\ page' = "D2"
  /\ mounted' = TRUE
  /\ lastOp' = [op |-> "mount", id |-> Null, from |-> Null, to |-> Null]
  /\ payDate' = FormatDay(today)
  /\ UNCHANGED <<dbCards, dbStatements, dbPayments, today, tz, mountedToday, payForm, call, forms>>
  /\ D2_loadAll

D3_mount ==
  /\ page = ""
  /\ page' = "D3"
  /\ mounted' = TRUE
  /\ lastOp' = [op |-> "mount", id |-> Null, from |-> Null, to |-> Null]
  /\ mountedToday' = FormatDay(today)
  /\ payDate' = FormatDay(today)
  /\ UNCHANGED <<dbCards, dbStatements, dbPayments, today, tz, payForm, call, forms>>
  /\ D3_loadAll

\* --------------------------------------------------- re-linking a payment
\* the options of the payment's select: None and the statements of its card
LinkOptions(p) ==
  {""} \cup (IF Truthy(p.card_id)
             THEN {statements[i].id : i \in {j \in 1..Len(statements) : statements[j].card_id = p.card_id}}
             ELSE {})

\* the option the select shows for the payment
LinkShown(p) ==
  LET cur == IF p.statement_id = Null THEN "" ELSE p.statement_id
  IN IF cur \in LinkOptions(p) THEN cur ELSE ""

\* variant: the update without .eq("id", paymentId)
UpdateStatementId_all(rows, paymentId, statementId) ==
  {[r EXCEPT !.statement_id = IF Truthy(statementId) THEN statementId ELSE Null] : r \in rows}

\* .update({ statement_id: statementId || null }).eq("id", paymentId)
UpdateStatementId(rows, paymentId, statementId) ==
  {IF r.id = paymentId THEN [r EXCEPT !.statement_id = IF Truthy(statementId) THEN statementId ELSE Null]
   ELSE r : r \in rows}

\* the stored statement_id of a payment
LinkOf(rows, paymentId) == (CHOOSE r \in rows : r.id = paymentId).statement_id

D1_updatePaymentStatement(paymentId, statementId) ==
  /\ page = "D1" /\ mounted
  /\ Truthy(userId)
  /\ dbPayments' = UpdateStatementId(dbPayments, paymentId, statementId)
  /\ lastOp' = [op |-> "updatePaymentStatement", id |-> paymentId,
                from |-> LinkOf(dbPayments, paymentId), to |-> LinkOf(dbPayments', paymentId)]
  /\ UNCHANGED <<dbCards, dbStatements, today, tz, page, mounted, payDate, mountedToday, payForm, call, forms>>
  /\ D1_loadAll

D2_updatePaymentStatement(paymentId, statementId) ==
  /\ page = "D2" /\ mounted
  /\ dbPayments' = UpdateStatementId(dbPayments, paymentId, statementId)
  /\ lastOp' = [op |-> "updatePaymentStatement", id |-> paymentId,
                from |-> LinkOf(dbPayments, paymentId), to |-> LinkOf(dbPayments', paymentId)]
  /\ UNCHANGED <<dbCards, dbStatements, today, tz, page, mounted, payDate, mountedToday, payForm, call, forms>>
  /\ D2_loadAll

D3_updatePaymentStatement(paymentId, statementId) ==
  /\ page = "D3" /\ mounted
  /\ dbPayments' = UpdateStatementId(dbPayments, paymentId, statementId)
  /\ lastOp' = [op |-> "updatePaymentStatement", id |-> paymentId,
                from |-> LinkOf(dbPayments, paymentId), to |-> LinkOf(dbPayments', paymentId)]
  /\ UNCHANGED <<dbCards, dbStatements, today, tz, page, mounted, payDate, mountedToday, payForm, call, forms>>
  /\ D3_loadAll

\* the select of a listed payment changes to another option
D1_relink ==
  \E i \in 1..Len(payments) : \E sid \in LinkOptions(payments[i]) \ {LinkShown(payments[i])} :
    Truthy(payments[i].card_id) /\ D1_updatePaymentStatement(payments[i].id, sid)

D2_relink ==
  \E i \in 1..Len(payments) : \E sid \in LinkOptions(payments[i]) \ {LinkShown(payments[i])} :
    D2_updatePaymentStatement(payments[i].id, sid)

D3_relink ==
  \E i \in 1..Len(payments) : \E sid \in LinkOptions(payments[i]) \ {LinkShown(payments[i])} :
    D3_updatePaymentStatement(payments[i].id, sid)

Next ==
  \/ D1_mount
  \/ D2_mount
  \/ D3_mount
  \/ D1_relink
  \/ D2_relink
  \/ D3_relink

\* --------------------------------------------------------- the clock
\* midnight passes on the client: new Date() answers the next day from now on
ClockTick ==
  /\ today < Today0 + MaxDaysPassed
  /\ today' = today + 1
  /\ lastOp' = [op |-> "clock", id |-> Null, from |-> Null, to |-> Null]
  /\ UNCHANGED <<dbCards, dbStatements, dbPayments, tz, page, mounted,
                 cards, statements, payments, payDate, mountedToday, payForm, call, forms>>

NextClock ==
  \/ Next
  \/ ClockTick

\* --------------------------------------------- a reload with failed reads
Reads == {"cards", "statements", "payments"}

\* first dashboard: an error of any read throws before the first setter runs
D1_loadAllOr(failed) ==
  IF failed = {} THEN D1_loadAll ELSE UNCHANGED <<cards, statements, payments>>

\* second and third dashboard: setX(res.data ?? []), and data is null for a
\* read that failed
D2_loadAllOr(failed) ==
  /\ cards' \in (IF "cards" \in failed THEN {<<>>} ELSE Ordered(dbCards', "name"))
  /\ statements' \in (IF "statements" \in failed THEN {<<>>}
                      ELSE Ordered(dbStatements', "statement_month desc"))
  /\ payments' \in (IF "payments" \in failed THEN {<<>>}
                    ELSE {Limit(q, PaymentsLimit) : q \in Ordered(dbPayments', "payment_date desc")})

D3_loadAllOr(failed) ==
  /\ cards' \in (IF "cards" \in failed THEN {<<>>} ELSE Ordered(dbCards', "created_at desc"))
  /\ statements' \in (IF "statements" \in failed THEN {<<>>}
                      ELSE Ordered(dbStatements', "statement_month desc"))
  /\ payments' \in (IF "payments" \in failed THEN {<<>>}
                    ELSE {Limit(q, PaymentsLimit) : q \in Ordered(dbPayments', "payment_date desc")})

\* updatePaymentStatement whose update succeeds and whose reload meets read errors
D1_relinkReadError ==
  \E i \in 1..Len(payments) : \E sid \in LinkOptions(payments[i]) \ {LinkShown(payments[i])} :
    \E failed \in (SUBSET Reads) \ {{}} :
      /\ page = "D1" /\ mounted
      /\ Truthy(userId)
      /\ Truthy(payments[i].card_id)
      /\ dbPayments' = UpdateStatementId(dbPayments, payments[i].id, sid)
      /\ lastOp' = [op |-> "loadAll error", id |-> payments[i].id,
                    from |-> LinkOf(dbPayments, payments[i].id), to |-> LinkOf(dbPayments', payments[i].id)]
      /\ UNCHANGED <<dbCards, dbStatements, today, tz, page, mounted, payDate, mountedToday, payForm, call, forms>>
      /\ D1_loadAllOr(failed)

D2_relinkReadError ==
  \E i \in 1..Len(payments) : \E sid \in LinkOptions(payments[i]) \ {LinkShown(payments[i])} :
    \E failed \in (SUBSET Reads) \ {{}} :
      /\ page = "D2" /\ mounted
      /\ dbPayments' = UpdateStatementId(dbPayments, payments[i].id, sid)
      /\ lastOp' = [op |-> "loadAll error", id |-> payments[i].id,
                    from |-> LinkOf(dbPayments, payments[i].id), to |-> LinkOf(dbPayments', payments[i].id)]
      /\ UNCHANGED <<dbCards, dbStatements, today, tz, page, mounted, payDate, mountedToday, payForm, call, forms>>
      /\ D2_loadAllOr(failed)

D3_relinkReadError ==
  \E i \in 1..Len(payments) : \E sid \in LinkOptions(payments[i]) \ {LinkShown(payments[i])} :
    \E failed \in (SUBSET Reads) \ {{}} :
      /\ page = "D3" /\ mounted
      /\ dbPayments' = UpdateStatementId(dbPayments, payments[i].id, sid)
      /\ lastOp' = [op |-> "loadAll error", id |-> payments[i].id,
                    from |-> LinkOf(dbPayments, payments[i].id), to |-> LinkOf(dbPayments', payments[i].id)]
      /\ UNCHANGED <<dbCards, dbStatements, today, tz, page, mounted, payDate, mountedToday, payForm, call, forms>>
      /\ D3_loadAllOr(failed)

NextReload ==
  \/ Next
  \/ D1_relinkReadError
  \/ D2_relinkReadError
  \/ D3_relinkReadError

\* ---------------------------------------------------- the statements page
\* loadStatementsAndPayments(cardId): the statements of the card, and every
\* payment whose statement_id is one of theirs (the read has no limit)
ST_statements(cardId) == {x \in dbStatements : x.card_id = cardId}

ST_payments(cardId) == {p \in dbPayments : \E x \in ST_statements(cardId) : p.statement_id = x.id}

\* paidMap: the loop of the second dashboard, over the rows as the store
\* returns them
ST_paidMap(cardId) == D2_paidMap(CHOOSE q \in Ordered(ST_payments(cardId), "payment_date desc") : TRUE)

\* the Paid and the Pending of a listed statement
ST_paid(x) == MapGet0(ST_paidMap(x.card_id), x.id)

ST_pending(x) == SubValues(Number(OrZero(x.statement_amount)), ST_paid(x))

\* ------------------------------------------------- saving a statement
\* the date a date column stores for a text, NoDate for a text it rejects
DateOfText(s) ==
  LET parts == split(s)
  IN IF Len(parts) = 3 /\ \A i \in 1..3 : parts[i] # <<>> /\ NumberOfText(parts[i]) # NaN
     THEN LET d == DateStr(DecimalValue(parts[1]), DecimalValue(parts[2]), DecimalValue(parts[3]))
          IN IF ValidDate(d) THEN d ELSE NoDate
     ELSE NoDate

\* the ids the store gives to inserted statements, in turn
NewStatementIds == <<"S3", "S4", "S5">>

InsertedStatements(rows) == {r \in rows : r.id \notin StatementIds}

NextStatementId(rows) == NewStatementIds[Cardinality(InsertedStatements(rows)) + 1]

StatementRow(id, cardId, month, due, amount) ==
  [id |-> id, card_id |-> cardId, statement_month |-> month, due_date |-> due, statement_amount |-> amount]

\* the statements of the user hold one row per card and month
UniqueMonths(rows) ==
  \A a, b \in rows : a.card_id = b.card_id /\ a.statement_month = b.statement_month => a = b

\* the row that holds a card's month, or Null
HolderOf(rows, cardId, month) ==
  IF \E r \in rows : r.card_id = cardId /\ r.statement_month = month
  THEN (CHOOSE r \in rows : r.card_id = cardId /\ r.statement_month = month).id
  ELSE Null

\* variant: .insert(payload)
Upsert_insert(rows, cardId, month, due, amount) ==
  rows \cup {StatementRow(NextStatementId(rows), cardId, month, due, amount)}

\* .upsert(payload, { onConflict: "user_id,card_id,statement_month" })
Upsert(rows, cardId, month, due, amount) ==
  IF HolderOf(rows, cardId, month) # Null
  THEN {IF r.id = HolderOf(rows, cardId, month) THEN StatementRow(r.id, cardId, month, due, amount) ELSE r : r \in rows}
  ELSE rows \cup {StatementRow(NextStatementId(rows), cardId, month, due, amount)}

\* the upsert goes through (the store has an id left for a new row)
CanUpsert(rows, cardId, month) ==
  HolderOf(rows, cardId, month) # Null \/ Cardinality(InsertedStatements(rows)) < MaxNewStatements

\* .update(payload).eq("id", id): first dashboard, the card included
UpdateStatement(rows, id, cardId, month, due, amount) ==
  {IF r.id = id THEN StatementRow(id, cardId, month, due, amount) ELSE r : r \in rows}

\* .update({ statement_month, ..., currency }).eq("id", id): third dashboard
UpdateStatementKeepCard(rows, id, month, due, amount) ==
  {IF r.id = id THEN StatementRow(id, r.card_id, month, due, amount) ELSE r : r \in rows}

\* the form: the Edit button of a listed statement or none, the card select,
\* the month field; the due date is left empty and the amount is MaxAmount
EditChoices == {""} \cup {statements[i].id : i \in 1..Len(statements)}
CardChoices == {""} \cup {cards[i].id : i \in 1..Len(cards)}
MonthChoices == {<<>>, DateText(2025, 1, 15), DateText(2025, 2, 3)}
DueChoices == {NoDate}
AmountChoices == {Num(MaxAmount)}

D1_saveStatement ==
  \E editingStatementId \in EditChoices, selectedCardId \in CardChoices, stMonth \in MonthChoices,
     stDue \in DueChoices, stAmount \in AmountChoices :
    LET monthFirst == toFirstOfMonth(stMonth)
        month == DateOfText(monthFirst)
        amount == safeNum(stAmount)
    IN /\ page = "D1" /\ mounted
       /\ Truthy(userId)
       /\ Truthy(selectedCardId)
       /\ stMonth # <<>>
       /\ monthFirst # <<>>
       /\ month # NoDate
       /\ IF Truthy(editingStatementId)
          THEN /\ dbStatements' = UpdateStatement(dbStatements, editingStatementId, selectedCardId, month, stDue, amount)
               /\ UniqueMonths(dbStatements')
          ELSE /\ CanUpsert(dbStatements, selectedCardId, month)
               /\ dbStatements' = Upsert(dbStatements, selectedCardId, month, stDue, amount)
       /\ lastOp' = [op |-> "saveStatement", id |-> editingStatementId,
                     from |-> HolderOf(dbStatements, selectedCardId, month),
                     to |-> HolderOf(dbStatements', selectedCardId, month)]
       /\ UNCHANGED <<dbCards, dbPayments, today, tz, page, mounted, payDate, mountedToday, payForm, call, forms>>
       /\ D1_loadAll

D2_saveStatement ==
  \E editingStatementId \in EditChoices, selectedCardId \in CardChoices, stMonth \in MonthChoices,
     stDue \in DueChoices, stAmount \in AmountChoices :
    LET monthText == monthFirstDay(stMonth)
        month == DateOfText(monthText)
        amount == safeNum(stAmount)
    IN /\ page = "D2" /\ mounted
       /\ Truthy(userId)
       /\ Truthy(selectedCardId)
       /\ monthText # <<>>
       /\ month # NoDate
       /\ CanUpsert(dbStatements, selectedCardId, month)
       /\ dbStatements' = Upsert(dbStatements, selectedCardId, month, stDue, amount)
       /\ lastOp' = [op |-> "saveStatement", id |-> editingStatementId,
                     from |-> HolderOf(dbStatements, selectedCardId, month),
                     to |-> HolderOf(dbStatements', selectedCardId, month)]
       /\ UNCHANGED <<dbCards, dbPayments, today, tz, page, mounted, payDate, mountedToday, payForm, call, forms>>
       /\ D2_loadAll

D3_saveStatement ==
  \E editingStatementId \in EditChoices, selectedCardId \in CardChoices, stMonth \in MonthChoices,
     stDue \in DueChoices, stAmount \in AmountChoices :
    LET monthText == firstDayOfMonth(stMonth)
        month == DateOfText(monthText)
        amount == safeNum(stAmount)
        editedCard == (CHOOSE r \in dbStatements : r.id = editingStatementId).card_id
    IN /\ page = "D3" /\ mounted
       /\ Truthy(selectedCardId)
       /\ monthText # NullText
       /\ month # NoDate
       /\ IF Truthy(editingStatementId)
          THEN /\ dbStatements' = UpdateStatementKeepCard(dbStatements, editingStatementId, month, stDue, amount)
               /\ UniqueMonths(dbStatements')
               /\ lastOp' = [op |-> "saveStatement", id |-> editingStatementId,
                             from |-> HolderOf(dbStatements, editedCard, month),
                             to |-> HolderOf(dbStatements', editedCard, month)]
          ELSE /\ CanUpsert(dbStatements, selectedCardId, month)
               /\ dbStatements' = Upsert(dbStatements, selectedCardId, month, stDue, amount)
               /\ lastOp' = [op |-> "saveStatement", id |-> editingStatementId,
                             from |-> HolderOf(dbStatements, selectedCardId, month),
                             to |-> HolderOf(dbStatements', selectedCardId, month)]
       /\ UNCHANGED <<dbCards, dbPayments, today, tz, page, mounted, payDate, mountedToday, payForm, call, forms>>
       /\ D3_loadAll

NextSave ==
  \/ D1_mount
  \/ D2_mount
  \/ D3_mount
  \/ D1_saveStatement
  \/ D2_saveStatement
  \/ D3_saveStatement

\* ------------------------------------------------------ the payments page
Kinds == {"CARD", "LOAN", "PERSONAL"}

\* the user's rows of tables loans and personal_debts, which the page only reads
LoanIds == {"L1"}
PersonalIds == {"D1"}

\* the ids the store gives to inserted payments, in turn
NewPaymentIds == <<"N1", "N2", "N3">>

InsertedPayments(rows) == {r \in rows : \E i \in DOMAIN NewPaymentIds : r.id = NewPaymentIds[i]}

PAY_loadAll ==
  /\ cards' \in Ordered({c \in dbCards' : c.deleted_at = NoDate}, "created_at desc")
  /\ statements' \in Ordered(dbStatements', "statement_month desc")
  /\ payments' \in {Limit(q, PaymentsLimit) : q \in Ordered(dbPayments', "created_at desc")}

\* cardStatements[0].id, or "" when the card has no statement
FirstOfCard(stmts, cardId) ==
  LET idx == {i \in 1..Len(stmts) : stmts[i].card_id = cardId}
  IN IF idx = {} THEN "" ELSE stmts[CHOOSE i \in idx : \A j \in idx : i <= j].id

\* loadAll: if (firstCard && !cardId) setCardId(firstCard.id)
DefaultCard(form, cs) ==
  IF Len(cs) > 0 /\ form.cardId = "" THEN [form EXCEPT !.cardId = cs[1].id] ELSE form

\* the effect on [cardId, kind, statements]: auto-pick the latest statement
AutoPick(form, stmts) ==
  IF form.kind # "CARD" THEN form
  ELSE IF FirstOfCard(stmts, form.cardId) = "" THEN [form EXCEPT !.statementId = ""]
  ELSE IF form.statementId = "" THEN [form EXCEPT !.statementId = FirstOfCard(stmts, form.cardId)]
  ELSE form

PAY_mount ==
  /\ page = ""
  /\ page' = "PAY"
  /\ mounted' = TRUE
  /\ lastOp' = [op |-> "mount", id |-> Null, from |-> Null, to |-> Null]
  /\ UNCHANGED <<dbCards, dbStatements, dbPayments, today, tz, payDate, mountedToday, call, forms>>
  /\ PAY_loadAll
  /\ payForm' = AutoPick(DefaultCard([payForm EXCEPT !.statementId = ""], cards'), statements')

\* the Kind select changes: the effect on [kind] clears the statement, the
\* auto-pick effect of the same render then picks one for a card payment
PAY_setKind ==
  \E k \in Kinds \ {payForm.kind} :
    /\ page = "PAY" /\ mounted
    /\ payForm' = [payForm EXCEPT !.kind = k,
                                   !.statementId = IF k = "CARD" /\ payForm.statementId = ""
                                                   THEN FirstOfCard(statements, payForm.cardId) ELSE ""]
    /\ lastOp' = [op |-> "setKind", id |-> Null, from |-> payForm.kind, to |-> k]
    /\ UNCHANGED <<dbCards, dbStatements, dbPayments, today, tz, page, mounted,
                   cards, statements, payments, payDate, mountedToday, call, forms>>

\* the Card select changes, and the auto-pick effect runs
PAY_setCardId ==
  \E c \in ({""} \cup {cards[i].id : i \in 1..Len(cards)}) \ {payForm.cardId} :
    /\ page = "PAY" /\ mounted
    /\ payForm.kind = "CARD"
    /\ payForm' = AutoPick([payForm EXCEPT !.cardId = c], statements)
    /\ lastOp' = [op |-> "setCardId", id |-> Null, from |-> payForm.cardId, to |-> c]
    /\ UNCHANGED <<dbCards, dbStatements, dbPayments, today, tz, page, mounted,
                   cards, statements, payments, payDate, mountedToday, call, forms>>

\* the Statement select changes to None or to a statement of the card
PAY_setStatementId ==
  \E sid \in ({""} \cup {statements[i].id : i \in {j \in 1..Len(statements) : statements[j].card_id = payForm.cardId}})
             \ {payForm.statementId} :
    /\ page = "PAY" /\ mounted
    /\ payForm.kind = "CARD"
    /\ payForm' = [payForm EXCEPT !.statementId = sid]
    /\ lastOp' = [op |-> "setStatementId", id |-> Null, from |-> payForm.statementId, to |-> sid]
    /\ UNCHANGED <<dbCards, dbStatements, dbPayments, today, tz, page, mounted,
                   cards, statements, payments, payDate, mountedToday, call, forms>>

\* the Loan select or the Personal select changes
PAY_setLoanId ==
  \E l \in ({""} \cup LoanIds) \ {payForm.loanId} :
    /\ page = "PAY" /\ mounted
    /\ payForm.kind = "LOAN"
    /\ payForm' = [payForm EXCEPT !.loanId = l]
    /\ lastOp' = [op |-> "setLoanId", id |-> Null, from |-> payForm.loanId, to |-> l]
    /\ UNCHANGED <<dbCards, dbStatements, dbPayments, today, tz, page, mounted,
                   cards, statements, payments, payDate, mountedToday, call, forms>>

PAY_setPersonalId ==
  \E d \in ({""} \cup PersonalIds) \ {payForm.personalId} :
    /\ page = "PAY" /\ mounted
    /\ payForm.kind = "PERSONAL"
    /\ payForm' = [payForm EXCEPT !.personalId = d]
    /\ lastOp' = [op |-> "setPersonalId", id |-> Null, from |-> payForm.personalId, to |-> d]
    /\ UNCHANGED <<dbCards, dbStatements, dbPayments, today, tz, page, mounted,
                   cards, statements, payments, payDate, mountedToday, call, forms>>

\* variant: the card and the statement are set for every kind
PaymentLinks_anyKind(form) ==
  [card_id |-> IF Truthy(form.cardId) THEN form.cardId ELSE Null,
   statement_id |-> IF Truthy(form.statementId) THEN form.statementId ELSE Null,
   loan_id |-> IF form.kind = "LOAN" THEN form.loanId ELSE Null,
   personal_debt_id |-> IF form.kind = "PERSONAL" THEN form.personalId ELSE Null]

\* onAdd: the four links of the payload, all null but those of the kind
PaymentLinks(form) ==
  [card_id |-> IF form.kind = "CARD" THEN form.cardId ELSE Null,
   statement_id |-> IF form.kind = "CARD" /\ Truthy(form.statementId) THEN form.statementId ELSE Null,
   loan_id |-> IF form.kind = "LOAN" THEN form.loanId ELSE Null,
   personal_debt_id |-> IF form.kind = "PERSONAL" THEN form.personalId ELSE Null]

\* created_at of a row inserted now
NextCreatedAt(rows) == Cardinality(rows) + 1

PAY_onAdd ==
  \E amount \in {Num(1)} :
    LET links == PaymentLinks(payForm)
        newId == NewPaymentIds[Cardinality(InsertedPayments(dbPayments)) + 1]
    IN /\ page = "PAY" /\ mounted
       /\ Truthy(userId)
       /\ Cardinality(InsertedPayments(dbPayments)) < MaxNewPayments
       /\ payForm.kind = "CARD" => Truthy(payForm.cardId)
       /\ payForm.kind = "LOAN" => Truthy(payForm.loanId)
       /\ payForm.kind = "PERSONAL" => Truthy(payForm.personalId)
       /\ dbPayments' = dbPayments \cup
            {[id |-> newId, kind |-> payForm.kind, payment_date |-> FormatDay(today),
              amount |-> safeNum(amount), card_id |-> links.card_id, statement_id |-> links.statement_id,
              loan_id |-> links.loan_id, personal_debt_id |-> links.personal_debt_id,
              created_at |-> NextCreatedAt(dbPayments)]}
       /\ lastOp' = [op |-> "onAdd", id |-> newId, from |-> Null, to |-> links.statement_id]
       /\ UNCHANGED <<dbCards, dbStatements, today, tz, page, mounted, payDate, mountedToday, call, forms>>
       /\ PAY_loadAll
       /\ payForm' = AutoPick(DefaultCard(payForm, cards'), statements')

\* the options of a listed payment's select: None and stOptions
PAY_stOptions(p) ==
  {""} \cup (IF p.kind = "CARD" /\ Truthy(p.card_id)
             THEN {statements[i].id : i \in {j \in 1..Len(statements) : statements[j].card_id = p.card_id}}
             ELSE {})

\* the select is rendered for the payment
PAY_selectShown(p) == p.kind = "CARD"

PAY_updatePaymentStatement(paymentId, newStatementId) ==
  /\ page = "PAY" /\ mounted
  /\ dbPayments' = UpdateStatementId(dbPayments, paymentId, newStatementId)
  /\ lastOp' = [op |-> "updatePaymentStatement", id |-> paymentId,
                from |-> LinkOf(dbPayments, paymentId), to |-> LinkOf(dbPayments', paymentId)]
  /\ UNCHANGED <<dbCards, dbStatements, today, tz, page, mounted, payDate, mountedToday, call, forms>>
  /\ PAY_loadAll
  /\ payForm' = AutoPick(DefaultCard(payForm, cards'), statements')

PAY_relink ==
  \E i \in 1..Len(payments) : \E sid \in PAY_stOptions(payments[i]) \ {LinkShown(payments[i])} :
    PAY_selectShown(payments[i]) /\ PAY_updatePaymentStatement(payments[i].id, sid)

NextPay ==
  \/ PAY_mount
  \/ PAY_setKind
  \/ PAY_setCardId
  \/ PAY_setStatementId
  \/ PAY_setLoanId
  \/ PAY_setPersonalId
  \/ PAY_onAdd
  \/ PAY_relink

\* ------------------------------------- first dashboard: cards and payments
Tabs == {"OVERVIEW", "CARDS", "STATEMENTS", "PAYMENTS"}

NewCardIds == <<"C3", "C4">>

InsertedCards(rows) == {r \in rows : \E i \in DOMAIN NewCardIds : r.id = NewCardIds[i]}

\* what the user types or picks in the forms
NameChoices == {3}
LimitChoices == {Num(MaxAmount)}
PayAmountChoices == {Num(MaxAmount)}
PayDateChoices == {NoDate, FormatDay(Today0 - WindowDays)}

\* a request to the store succeeds or answers with an error
Outcomes == {"ok", "error"}

resetCardForm(f) == [f EXCEPT !.editingCardId = "", !.cName = 0, !.cLimit = NullV]

resetPaymentForm(f) ==
  [f EXCEPT !.editingPaymentId = "", !.payCardId = "", !.payStatementId = "", !.payAmount = NullV]

\* .update(payload).eq("id", id): the rows with that id take the payload, the
\* others stay; no row with that id is no error
UpdateRow(rows, id, payload) ==
  {IF r.id = id THEN [k \in DOMAIN r |-> IF k \in DOMAIN payload THEN payload[k] ELSE r[k]] ELSE r : r \in rows}

\* .delete().eq("id", id)
DeleteRow(rows, id) == {r \in rows : r.id # id}

\* a handler that only sets fields of the forms
D1_formStep(f) ==
  /\ page = "D1" /\ mounted
  /\ forms' = f
  /\ lastOp' = [op |-> "setState", id |-> Null, from |-> Null, to |-> Null]
  /\ UNCHANGED <<dbCards, dbStatements, dbPayments, today, tz, page, mounted,
                 cards, statements, payments, payDate, mountedToday, payForm, call>>

\* a handler whose request failed, or that returned at a check: only setMsg
\* (the message is kept in lastOp.to)
D1_message(op, id, text) ==
  /\ lastOp' = [op |-> op, id |-> id, from |-> Null, to |-> text]
  /\ UNCHANGED <<dbCards, dbStatements, dbPayments, today, tz, page, mounted,
                 cards, statements, payments, payDate, mountedToday, payForm, call, forms>>

\* the tab buttons
D1_setTab == \E t \in Tabs \ {forms.tab} : D1_formStep([forms EXCEPT !.tab = t])

\* the fields of the card form
D1_setCName ==
  \E n \in NameChoices \ {forms.cName} :
    forms.tab = "CARDS" /\ D1_formStep([forms EXCEPT !.cName = n])

D1_setCLimit ==
  \E a \in LimitChoices \ {forms.cLimit} :
    forms.tab = "CARDS" /\ D1_formStep([forms EXCEPT !.cLimit = a])

D1_cancelCardEdit ==
  forms.tab = "CARDS" /\ Truthy(forms.editingCardId) /\ D1_formStep(resetCardForm(forms))

D1_startEditCard ==
  \E i \in 1..Len(cards) :
    /\ forms.tab = "CARDS"
    /\ D1_formStep([forms EXCEPT !.tab = "CARDS", !.editingCardId = cards[i].id, !.cName = cards[i].name,
                      !.cLimit = cards[i].credit_limit])

D1_saveCard ==
  \E outcome \in Outcomes :
    LET payload == [name |-> forms.cName, credit_limit |-> safeNum(forms.cLimit)]
        newId == NewCardIds[Cardinality(InsertedCards(dbCards)) + 1]
        text == IF Truthy(forms.editingCardId) THEN "Card updated." ELSE "Card saved."
    IN /\ page = "D1" /\ mounted /\ forms.tab = "CARDS"
       /\ Truthy(forms.editingCardId) \/ Cardinality(InsertedCards(dbCards)) < MaxNewCards
       /\ IF ~Truthy(userId) THEN D1_message("saveCard", forms.editingCardId, "Please sign in first.")
          ELSE IF forms.cName = 0 THEN D1_message("saveCard", forms.editingCardId, "Card name is required.")
          ELSE IF outcome = "error" THEN D1_message("saveCard", forms.editingCardId, "card error")
          ELSE /\ dbCards' = IF Truthy(forms.editingCardId)
                             THEN UpdateRow(dbCards, forms.editingCardId, payload)
                             ELSE dbCards \cup {[id |-> newId, name |-> payload.name,
                                                 created_at |-> NextCreatedAt(dbCards),
                                                 credit_limit |-> payload.credit_limit, deleted_at |-> NoDate]}
               /\ forms' = resetCardForm(forms)
               /\ lastOp' = [op |-> "saveCard", id |-> forms.editingCardId, from |-> Null, to |-> text]
               /\ UNCHANGED <<dbStatements, dbPayments, today, tz, page, mounted, payDate,
                              mountedToday, payForm, call>>
               /\ D1_loadAll

D1_deleteCard ==
  \E i \in 1..Len(cards) : \E outcome \in Outcomes :
    LET id == cards[i].id
    IN /\ page = "D1" /\ mounted /\ forms.tab = "CARDS"
       /\ IF ~Truthy(userId) THEN D1_message("deleteCard", id, "Please sign in first.")
          ELSE IF outcome = "error" THEN D1_message("deleteCard", id, "Delete card error")
          ELSE /\ dbCards' = DeleteRow(dbCards, id)
               /\ lastOp' = [op |-> "deleteCard", id |-> id, from |-> Null, to |-> "Card deleted."]
               /\ UNCHANGED <<dbStatements, dbPayments, today, tz, page, mounted, payDate,
                              mountedToday, payForm, call, forms>>
               /\ D1_loadAll

\* the Payment button of a listed card: the four setters of one batch, the
\* later one of the same field wins
D1_cardPayment ==
  \E i \in 1..Len(cards) :
    /\ page = "D1" /\ mounted /\ forms.tab = "CARDS"
    /\ forms' = resetPaymentForm([forms EXCEPT !.tab = "PAYMENTS", !.payCardId = cards[i].id,
                                               !.payStatementId = ""])
    /\ lastOp' = [op |-> "cardPayment", id |-> cards[i].id, from |-> Null, to |-> Null]
    /\ UNCHANGED <<dbCards, dbStatements, dbPayments, today, tz, page, mounted,
                   cards, statements, payments, payDate, mountedToday, payForm, call>>

\* the fields of the payment form
D1_setPayCardId ==
  \E c \in ({""} \cup {cards[i].id : i \in 1..Len(cards)}) \ {forms.payCardId} :
    forms.tab = "PAYMENTS" /\ D1_formStep([forms EXCEPT !.payCardId = c, !.payStatementId = ""])

D1_setPayStatementId ==
  \E sid \in ({""} \cup {statements[i].id : i \in {j \in 1..Len(statements) : statements[j].card_id = forms.payCardId}})
             \ {forms.payStatementId} :
    /\ forms.tab = "PAYMENTS" /\ Truthy(forms.payCardId)
    /\ D1_formStep([forms EXCEPT !.payStatementId = sid])

D1_setPayAmount ==
  \E a \in PayAmountChoices \ {forms.payAmount} :
    forms.tab = "PAYMENTS" /\ D1_formStep([forms EXCEPT !.payAmount = a])

D1_setPayDate ==
  \E d \in PayDateChoices \ {payDate} :
    /\ page = "D1" /\ mounted /\ forms.tab = "PAYMENTS"
    /\ payDate' = d
    /\ lastOp' = [op |-> "setState", id |-> Null, from |-> Null, to |-> Null]
    /\ UNCHANGED <<dbCards, dbStatements, dbPayments, today, tz, page, mounted,
                   cards, statements, payments, mountedToday, payForm, call, forms>>

D1_cancelPaymentEdit ==
  /\ forms.tab = "PAYMENTS" /\ Truthy(forms.editingPaymentId)
  /\ D1_formStep(resetPaymentForm(forms))

D1_startEditPayment ==
  \E i \in 1..Len(payments) :
    LET p == payments[i]
    IN /\ page = "D1" /\ mounted /\ forms.tab = "PAYMENTS"
       /\ forms' = [forms EXCEPT !.tab = "PAYMENTS", !.editingPaymentId = p.id,
                               !.payCardId = IF p.card_id = Null THEN "" ELSE p.card_id,
                               !.payStatementId = IF p.statement_id = Null THEN "" ELSE p.statement_id,
                               !.payAmount = p.amount]
       /\ payDate' = p.payment_date
       /\ lastOp' = [op |-> "setState", id |-> Null, from |-> Null, to |-> Null]
       /\ UNCHANGED <<dbCards, dbStatements, dbPayments, today, tz, page, mounted,
                      cards, statements, payments, mountedToday, payForm, call>>

D1_savePayment ==
  \E outcome \in Outcomes :
    LET payload == [card_id |-> forms.payCardId,
                    statement_id |-> IF Truthy(forms.payStatementId) THEN forms.payStatementId ELSE Null,
                    payment_date |-> payDate,
                    amount |-> safeNum(forms.payAmount)]
        newId == NewPaymentIds[Cardinality(InsertedPayments(dbPayments)) + 1]
        id == forms.editingPaymentId
        text == IF Truthy(id) THEN "Payment updated." ELSE "Payment saved."
    IN /\ page = "D1" /\ mounted /\ forms.tab = "PAYMENTS"
       /\ Truthy(id) \/ Cardinality(InsertedPayments(dbPayments)) < MaxNewPayments
       /\ IF ~Truthy(userId) THEN D1_message("savePayment", id, "Please sign in first.")
          ELSE IF ~Truthy(forms.payCardId) THEN D1_message("savePayment", id, "Select a card.")
          ELSE IF payDate = NoDate THEN D1_message("savePayment", id, "Payment date required.")
          ELSE IF forms.payAmount = NullV THEN D1_message("savePayment", id, "Amount required.")
          ELSE IF outcome = "error" THEN D1_message("savePayment", id, "payment error")
          ELSE /\ dbPayments' = IF Truthy(id) THEN UpdateRow(dbPayments, id, payload)
                                ELSE dbPayments \cup {[id |-> newId, card_id |-> payload.card_id,
                                                       statement_id |-> payload.statement_id,
                                                       payment_date |-> payload.payment_date,
                                                       amount |-> payload.amount]}
               /\ forms' = resetPaymentForm(forms)
               /\ lastOp' = [op |-> "savePayment", id |-> id, from |-> Null, to |-> text]
               /\ UNCHANGED <<dbCards, dbStatements, today, tz, page, mounted, payDate,
                              mountedToday, payForm, call>>
               /\ D1_loadAll

D1_deletePayment ==
  \E i \in 1..Len(payments) : \E outcome \in Outcomes :
    LET id == payments[i].id
    IN /\ page = "D1" /\ mounted /\ forms.tab = "PAYMENTS"
       /\ IF ~Truthy(userId) THEN D1_message("deletePayment", id, "Please sign in first.")
          ELSE IF outcome = "error" THEN D1_message("deletePayment", id, "Delete payment error")
          ELSE /\ dbPayments' = DeleteRow(dbPayments, id)
               /\ lastOp' = [op |-> "deletePayment", id |-> id, from |-> Null, to |-> "Payment deleted."]
               /\ UNCHANGED <<dbCards, dbStatements, today, tz, page, mounted, payDate,
                              mountedToday, payForm, call, forms>>
               /\ D1_loadAll

\* editing and deleting cards and payments
NextEdit ==
  \/ D1_mount
  \/ D1_setTab
  \/ D1_startEditCard
  \/ D1_setCLimit
  \/ D1_saveCard
  \/ D1_deleteCard
  \/ D1_startEditPayment
  \/ D1_setPayAmount
  \/ D1_savePayment
  \/ D1_deletePayment

\* ------------------------------------------------------- the cards page
\* .is("deleted_at", null)
Live(rows) == {r \in rows : r.deleted_at = NoDate}

\* .update({ deleted_at: new Date().toISOString() }).eq("id", id)
SoftDelete(rows, id, now) == {IF r.id = id THEN [r EXCEPT !.deleted_at = now] ELSE r : r \in rows}

\* loadAll: the read of the cards, or [] when it answers with an error
CP_loadAll(outcome) ==
  /\ cards' \in IF outcome = "error" THEN {<<>>} ELSE Ordered(Live(dbCards'), "created_at desc")
  /\ UNCHANGED <<statements, payments>>

CP_mount ==
  \E outcome \in Outcomes :
    /\ page = ""
    /\ page' = "CP"
    /\ mounted' = TRUE
    /\ lastOp' = [op |-> "mount", id |-> Null, from |-> Null, to |-> Null]
    /\ UNCHANGED <<dbCards, dbStatements, dbPayments, today, tz, payDate, mountedToday, payForm, call, forms>>
    /\ CP_loadAll(outcome)

CP_onDelete ==
  \E i \in 1..Len(cards) : \E outcome \in Outcomes : \E u \in UtcDays : \E reload \in Outcomes :
    /\ page = "CP" /\ mounted
    /\ lastOp' = [op |-> "onDelete", id |-> cards[i].id, from |-> Null,
                  to |-> IF outcome = "error" THEN "Delete error" ELSE ""]
    /\ UNCHANGED <<dbStatements, dbPayments, today, tz, page, mounted, payDate, mountedToday,
                   payForm, call, forms>>
    /\ IF outcome = "error"
       THEN UNCHANGED <<dbCards, cards, statements, payments>>
       ELSE dbCards' = SoftDelete(dbCards, cards[i].id, FormatDay(u)) /\ CP_loadAll(reload)

\* the server action deleteCard(formData)
SA_deleteCard ==
  \E c \in dbCards : \E u \in UtcDays :
    /\ dbCards' = SoftDelete(dbCards, c.id, FormatDay(u))
    /\ lastOp' = [op |-> "deleteCard action", id |-> c.id, from |-> Null, to |-> Null]
    /\ UNCHANGED <<dbStatements, dbPayments, today, tz, page, mounted, cards, statements, payments,
                   payDate, mountedToday, payForm, call, forms>>

\* the user leaves the open page: its state is gone
Leave ==
  /\ page # ""
  /\ page' = "" /\ mounted' = FALSE
  /\ cards' = <<>> /\ statements' = <<>> /\ payments' = <<>>
  /\ payDate' = NoDate /\ mountedToday' = NoDate
  /\ payForm' = NoForm /\ forms' = NoForms
  /\ lastOp' = [op |-> "leave", id |-> Null, from |-> Null, to |-> Null]
  /\ UNCHANGED <<dbCards, dbStatements, dbPayments, today, tz, call>>

NextSoft ==
  \/ D1_mount
  \/ D2_mount
  \/ D3_mount
  \/ PAY_mount
  \/ CP_mount
  \/ CP_onDelete
  \/ SA_deleteCard
  \/ Leave

\* ------------------------------------------------- the multi-step deletes
\* the requests of a handler run one after the other; the one numbered
\* failAt answers with an error and the handler returns (0: none fails)
Unlink(rows, statementId) ==
  {IF r.statement_id = statementId THEN [r EXCEPT !.statement_id = Null] ELSE r : r \in rows}

\* deleteStatement of the second and third dashboards: unlink the payments,
\* delete the statement, reload
DeleteStatementSteps(statementId, failAt, load) ==
  /\ dbPayments' = IF failAt = 1 THEN dbPayments ELSE Unlink(dbPayments, statementId)
  /\ dbStatements' = IF failAt \in {1, 2} THEN dbStatements ELSE DeleteRow(dbStatements, statementId)
  /\ lastOp' = [op |-> "deleteStatement", id |-> statementId, from |-> Null,
                to |-> IF failAt = 1 THEN "Unlink payments error"
                       ELSE IF failAt = 2 THEN "Delete statement error" ELSE ""]
  /\ UNCHANGED <<dbCards, today, tz, page, mounted, payDate, mountedToday, payForm, call, forms>>
  /\ IF failAt = 0 THEN load ELSE UNCHANGED <<cards, statements, payments>>

D2_deleteStatement ==
  \E i \in 1..Len(statements) : \E failAt \in 0..2 :
    page = "D2" /\ mounted /\ DeleteStatementSteps(statements[i].id, failAt, D2_loadAll)

D3_deleteStatement ==
  \E i \in 1..Len(statements) : \E failAt \in 0..2 :
    page = "D3" /\ mounted /\ DeleteStatementSteps(statements[i].id, failAt, D3_loadAll)

\* deleteCard of the second dashboard: delete the payments of the card, its
\* statements, the card, reload
D2_deleteCard ==
  \E i \in 1..Len(cards) : \E failAt \in 0..3 :
    LET cardId == cards[i].id
    IN /\ page = "D2" /\ mounted
       /\ dbPayments' = IF failAt = 1 THEN dbPayments ELSE {r \in dbPayments : r.card_id # cardId}
       /\ dbStatements' = IF failAt \in {1, 2} THEN dbStatements ELSE {r \in dbStatements : r.card_id # cardId}
       /\ dbCards' = IF failAt \in {1, 2, 3} THEN dbCards ELSE DeleteRow(dbCards, cardId)
       /\ lastOp' = [op |-> "deleteCard", id |-> cardId, from |-> Null,
                     to |-> IF failAt = 1 THEN "Delete payments error"
                            ELSE IF failAt = 2 THEN "Delete statements error"
                            ELSE IF failAt = 3 THEN "Delete card error" ELSE ""]
       /\ UNCHANGED <<today, tz, page, mounted, payDate, mountedToday, payForm, call, forms>>
       /\ IF failAt = 0 THEN D2_loadAll ELSE UNCHANGED <<cards, statements, payments>>

NextDelete ==
  \/ D1_mount
  \/ D2_mount
  \/ D3_mount
  \/ D2_deleteStatement
  \/ D3_deleteStatement
  \/ D2_deleteCard

\* the Cards tab and what the payment form can hold when its button is clicked
NextButton ==
  \/ D1_mount
  \/ D1_setTab
  \/ D1_setCName
  \/ D1_startEditCard
  \/ D1_cancelCardEdit
  \/ D1_cardPayment
  \/ D1_setPayCardId
  \/ D1_startEditPayment

\* the payment form
NextDate ==
  \/ D1_mount
  \/ D1_setTab
  \/ D1_setPayCardId
  \/ D1_setPayStatementId
  \/ D1_setPayAmount
  \/ D1_setPayDate
  \/ D1_startEditPayment
  \/ D1_cancelPaymentEdit
  \/ D1_savePayment

\* ------------------------------------------------ the month normalizers
Normalizers == {"toFirstOfMonth", "monthFirstDay", "firstDayOfMonth", "normalizeMonthStart"}

Normalize(fn, s) ==
  IF fn = "toFirstOfMonth" THEN toFirstOfMonth(s)
  ELSE IF fn = "monthFirstDay" THEN monthFirstDay(s)
  ELSE IF fn = "firstDayOfMonth" THEN firstDayOfMonth(s)
  ELSE normalizeMonthStart(s)

\* the values an <input type="date"> gives: calendar dates as YYYY-MM-DD
DateTexts == {DateText(y, m, d) : y \in {999, 1999, 2025}, m \in {1, 9, 12}, d \in {1, 15, 28}}

\* the empty field, and a year and month without a day
OtherTexts == {<<>>, slice(DateText(2025, 12, 1), 0, 7)}

\* a helper is applied to a field's value or to an earlier result
NormArgs == DateTexts \cup OtherTexts \cup ({call.res} \ {NullText})

ApplyNormalizer(fn) ==
  /\ \E s \in NormArgs : call' = [fn |-> fn, arg |-> s, res |-> Normalize(fn, s)]
  /\ UNCHANGED <<dbCards, dbStatements, dbPayments, today, tz, page, mounted,
                 cards, statements, payments, payDate, mountedToday, lastOp, payForm, forms>>

toFirstOfMonth_call == ApplyNormalizer("toFirstOfMonth")
monthFirstDay_call == ApplyNormalizer("monthFirstDay")
firstDayOfMonth_call == ApplyNormalizer("firstDayOfMonth")
normalizeMonthStart_call == ApplyNormalizer("normalizeMonthStart")

NextNorm ==
  \/ toFirstOfMonth_call
  \/ monthFirstDay_call
  \/ firstDayOfMonth_call
  \/ normalizeMonthStart_call

\* ------------------------------------------------------ specifications
\* rows as the pages write them: amounts are numbers or null, dates are
\* calendar dates or null, every statement belongs to a stored card
\* a billed amount is null, 1 or MaxAmount; a paid amount is null or 1
TypedAmounts == [id \in StatementIds |-> IF id = "S1" THEN {NullV, Num(1), Num(MaxAmount)} ELSE {Num(1), Num(MaxAmount)}]
PaidAmounts == {NullV, Num(1)}
\* S1 is a statement of card C1, S2 one of either card; both are due tomorrow
OneOrBothCards == [id \in StatementIds |-> IF id = "S1" THEN {"C1"} ELSE CardIds]
DueTomorrow == [id \in StatementIds |-> {FormatDay(Today0 + 1)}]

Init ==
  InitWith(Stores(OneOrBothCards, TypedAmounts, DueTomorrow, OwnMonth,
                  {Null} \cup StatementIds, PaidAmounts, OwnDate),
           {0})

Spec == Init /\ [][Next]_vars

\* rows as the store can hold them: a statement can name a card that is not
\* stored, and an amount can be a text that is no number
AnyCards == [id \in StatementIds |-> IF id = "S1" THEN {"C1"} ELSE {"C1", OrphanCardId}]
AnyBilled == [id \in StatementIds |-> IF id = "S1" THEN {Num(MaxAmount)} ELSE {Num(1), BadV}]
AnyPaid == {Num(1), BadV}

InitAny ==
  InitWith(Stores(AnyCards, AnyBilled, DueTomorrow, OwnMonth,
                  {Null} \cup StatementIds, AnyPaid, OwnDate),
           {0})

SpecAny == InitAny /\ [][Next]_vars

\* due dates around the 30-day window, clients east and west of UTC, and
\* statements of one month (of two cards: the store keeps one statement per
\* card and month), which a query returns in either order
OwnCards == [id \in StatementIds |-> IF id = "S1" THEN {"C1"} ELSE {"C2"}]
Offsets == {-5, 0, 4, 12}
DueBilled == [id \in StatementIds |-> IF id = "S1" THEN {Num(1)} ELSE {Num(MaxAmount)}]
WindowDues ==
  [id \in StatementIds |->
     IF id = "S1" THEN {FormatDay(Today0), FormatDay(Today0 + WindowDays)}
     ELSE {NoDate, DateStr(2025, 1, 32), FormatDay(Today0 + WindowDays), FormatDay(Today0 + WindowDays + 1)}]

InitDue ==
  InitWith(Stores(OwnCards, DueBilled, WindowDues, SameMonth,
                  {Null} \cup StatementIds, {Num(1)}, OwnDate),
           Offsets)

SpecDue == InitDue /\ [][Next]_vars

\* stores of no, one or two cards whose credit limit is a number, null or a
\* text that is no number, with the two statements or with none
Limits == {Num(5), NullV, BadV}
CardSets ==
  {{}} \cup {{[id |-> "C1", name |-> 1, created_at |-> 1, credit_limit |-> a, deleted_at |-> NoDate]} : a \in Limits}
       \cup {{[id |-> "C1", name |-> 1, created_at |-> 1, credit_limit |-> a, deleted_at |-> NoDate],
              [id |-> "C2", name |-> 2, created_at |-> 2, credit_limit |-> b, deleted_at |-> NoDate]} : a \in Limits, b \in Limits}
OneBilled == [id \in StatementIds |-> {Num(1)}]
WithOrWithoutStatements(stores) == stores \cup {[s |-> {}, p |-> st.p] : st \in stores}

InitCards ==
  InitOf(CardSets,
         WithOrWithoutStatements(Stores(OneOrBothCards, OneBilled, DueTomorrow, OwnMonth,
                                        {Null, "S1"}, {Num(1)}, OwnDate)),
         {0})

SpecCards == InitCards /\ [][Next]_vars

\* a page that stays open over midnight, at UTC
InitClock ==
  InitWith(Stores(OneOrBothCards, DueBilled, WindowDues, OwnMonth,
                  {Null} \cup StatementIds, {Num(1)}, OwnDate),
           {0})

SpecClock == InitClock /\ [][NextClock]_vars

\* the helpers applied to a field's value, before a page is opened
InitNorm ==
  InitWith(Stores(OwnCards, OneBilled, DueTomorrow, OwnMonth, {Null}, {Num(1)}, OwnDate), {0})

SpecNorm == InitNorm /\ [][NextNorm]_vars

\* pages on which statements are saved: every card has a statement, each of
\* a month of its own
InitSave ==
  InitWith(Stores(OwnCards, OneBilled, DueTomorrow, OwnMonth, {Null}, {Num(1)}, OwnDate), {0})

SpecSave == InitSave /\ [][NextSave]_vars

\* one payment more, of a small or a big amount, to either statement of C1's
WithThirdPayment(stores) ==
  {[s |-> st.s,
    p |-> st.p \cup {[id |-> PaymentIds[NumPayments + 1], card_id |-> "C1", statement_id |-> sid,
                       payment_date |-> FormatDay(Today0 - NumPayments - 1), amount |-> a]}] :
     st \in stores, sid \in {Null, "S1"}, a \in {Num(1), Num(BigAmount)}}

\* payments of small and big amounts, linked to S1 or to no statement
InitOrder ==
  InitWith(WithThirdPayment(Stores(OwnCards, [id \in StatementIds |-> {Num(BigAmount + 2)}], DueTomorrow, OwnMonth,
                                   {Null, "S1"}, {Num(1), Num(BigAmount)}, OwnDate)),
           {0})

SpecOrder == InitOrder /\ [][Next]_vars

\* the rows of the worked example: card C1, its statement S1 and the payment
\* P1 linked to it
ExampleCard == [id |-> "C1", name |-> 1, created_at |-> 1, credit_limit |-> Num(5000), deleted_at |-> NoDate]
ExampleStatement ==
  [id |-> "S1", card_id |-> "C1", statement_month |-> DateStr(2025, 1, 1),
   due_date |-> DateStr(2025, 1, 20), statement_amount |-> Num(1200)]
ExamplePayment ==
  [id |-> "P1", card_id |-> "C1", statement_id |-> "S1", payment_date |-> FormatDay(Today0 - 1),
   amount |-> Num(700)]

\* the example's rows alone, or with a second payment that is not linked yet
ExampleStores ==
  {[s |-> {ExampleStatement}, p |-> {ExamplePayment}]} \cup
  {[s |-> {ExampleStatement},
    p |-> {ExamplePayment, [id |-> "P2", card_id |-> "C1", statement_id |-> Null,
                            payment_date |-> FormatDay(Today0 - 2), amount |-> a]}] :
     a \in {Num(1), Num(700)}}

InitExample == InitOf({{ExampleCard}}, ExampleStores, Offsets)

SpecExample == InitExample /\ [][Next]_vars

\* the payments page over a store with a card payment, linked to S1 or to no
\* statement, and a loan payment
PayStores ==
  {[s |-> st.s,
    p |-> {[id |-> "P1", kind |-> "CARD", payment_date |-> FormatDay(Today0 - 1), amount |-> Num(1),
            card_id |-> "C1", statement_id |-> sid, loan_id |-> Null, personal_debt_id |-> Null,
            created_at |-> 1],
           [id |-> "P2", kind |-> "LOAN", payment_date |-> FormatDay(Today0 - 2), amount |-> Num(1),
            card_id |-> Null, statement_id |-> Null, loan_id |-> "L1", personal_debt_id |-> Null,
            created_at |-> 2]}] :
     st \in Stores(OwnCards, OneBilled, DueTomorrow, OwnMonth, {Null}, {Num(1)}, OwnDate),
     sid \in {Null, "S1"}}

InitPay == InitWith(PayStores, {0})

SpecPay == InitPay /\ [][NextPay]_vars

\* pages whose reloads can meet read errors
InitReload ==
  InitWith(Stores(OwnCards, OneBilled, DueTomorrow, OwnMonth, {Null, "S1"}, {Num(1)}, OwnDate), {0})

SpecReload == InitReload /\ [][NextReload]_vars

\* a user with one payment less than the reads' limit, as many, or one more:
\* payments of 1 on card C1, one per day, all linked to S1 or only the oldest
ManyPayments(n, oldestOnly) ==
  {[id |-> i, card_id |-> "C1", statement_id |-> IF oldestOnly => i = n THEN "S1" ELSE Null,
    payment_date |-> FormatDay(Today0 - i), amount |-> Num(1)] : i \in 1..n}

ManyStores ==
  {[s |-> st.s, p |-> ManyPayments(n, oldestOnly)] :
     st \in Stores(OwnCards, [id \in StatementIds |-> {Num(PaymentsLimit + 2)}], DueTomorrow, OwnMonth,
                   {Null}, {Num(1)}, OwnDate),
     n \in (PaymentsLimit - 1)..(PaymentsLimit + 1), oldestOnly \in BOOLEAN}

InitMany == InitWith(ManyStores, Offsets)

NextMany ==
  \/ D1_mount
  \/ D2_mount
  \/ D3_mount
  \/ ClockTick

SpecMany == InitMany /\ [][NextMany]_vars

\* one card with one statement and one payment on it, linked or not
InitEdit ==
  InitOf({{r \in CardRows : r.id = "C1"}},
         {[s |-> {x \in st.s : x.card_id = "C1"}, p |-> {r \in st.p : r.id = "P1"}] :
            st \in Stores(OwnCards, OneBilled, DueTomorrow, OwnMonth, {Null, "S1"}, {Num(1)}, OwnDate)},
         {0})

SpecEdit == InitEdit /\ [][NextEdit]_vars

SpecDate == InitEdit /\ [][NextDate]_vars

SpecDelete == InitReload /\ [][NextDelete]_vars

SpecButton == InitReload /\ [][NextButton]_vars

SpecSoft == InitPay /\ [][NextSoft]_vars

\* ================================================ what the open page shows
paidView ==
  IF page = "D1" THEN D1_paidByStatement(payments)
  ELSE IF page = "D2" THEN D2_paidMap(payments)
  ELSE D3_paidByStatement(payments)

\* the Pending line of a statement in the statement list
pendingView(s) ==
  IF page = "D1" THEN D1_pending(s, paidView)
  ELSE IF page = "D2" THEN D2_pending(s, paidView)
  ELSE D3_pending(s, paidView)

pendingByCardView ==
  IF page = "D1" THEN D1_pendingByCard(statements, paidView)
  ELSE IF page = "D2" THEN D2_pendingByCard(statements, paidView)
  ELSE D3_pendingByCard(statements, paidView)

totalPendingView ==
  IF page = "D1" THEN D1_totals(cards, pendingByCardView).totalPending
  ELSE IF page = "D2" THEN D2_totalPending(pendingByCardView)
  ELSE D3_totalPending(statements, paidView)

totalLimitView ==
  IF page = "D1" THEN D1_totals(cards, pendingByCardView).totalLimit
  ELSE IF page = "D2" THEN D2_totalLimit(cards)
  ELSE D3_totalLimit(cards)

\* the lists the Upcoming Due section can show
upcomingDueView ==
  IF page = "D1" THEN D1_upcomingDue(statements, paidView, payDate)
  ELSE IF page = "D2" THEN D2_upcomingDue(statements, paidView, today, tz, mounted)
  ELSE D3_upcomingDue(statements, paidView, mountedToday, tz)

\* the date the Upcoming Due section counts from
asOfView ==
  IF page = "D1" THEN payDate
  ELSE IF page = "D2" THEN FormatDay(today)
  ELSE mountedToday

\* the first and second dashboards clamp pending at 0, the third does not
Clamps == page \in {"D1", "D2"}

\* ============================================================== claims
\* the amount of a row as the data model reads it: 0 when absent
IntOf(v) == IF v.t = "num" THEN v.v ELSE 0

Max0(n) == IF n > 0 THEN n ELSE 0

RECURSIVE SumAmounts(_)
SumAmounts(rows) ==
  IF rows = {} THEN 0
  ELSE LET r == CHOOSE x \in rows : TRUE IN IntOf(r.amount) + SumAmounts(rows \ {r})

LinkedTo(k) == {p \in Range(payments) : p.statement_id = k}

Linked == {p \in Range(payments) : p.statement_id # Null}

RECURSIVE SumMap(_, _)
SumMap(m, keys) ==
  IF keys = {} THEN 0
  ELSE LET k == CHOOSE x \in keys : TRUE IN m[k].v + SumMap(m, keys \ {k})

\* C1: on every dashboard the pending shown for a statement of the snapshot is
\* billed - paid, clamped at 0 on the first and second dashboard and not
\* clamped on the third, where paid is the statement's entry of the paid map
\* and 0 when the map has none.
C1_PendingIsBilledMinusPaid ==
  mounted =>
    \A s \in Range(statements) :
      LET billed == IntOf(s.statement_amount)
          paid == IF s.id \in DOMAIN paidView THEN paidView[s.id].v ELSE 0
      IN pendingView(s) = Num(IF Clamps THEN Max0(billed - paid) ELSE billed - paid)

\* a statement is overpaid (the clamp decides) and another is not
C1_Witness ==
  /\ mounted
  /\ \E s \in Range(statements) : IntOf(s.statement_amount) < SumAmounts(LinkedTo(s.id))
  /\ \E s \in Range(statements) : IntOf(s.statement_amount) > SumAmounts(LinkedTo(s.id))
                                  /\ SumAmounts(LinkedTo(s.id)) > 0

\* C2: the paid map holds, at every statement identifier, the sum of the
\* amounts of the payments linked to it; it has no entry that no payment
\* links to; and its values add up to the amounts of the linked payments.
C2_PaidMapIsSumOfLinked ==
  mounted =>
    /\ DOMAIN paidView = {p.statement_id : p \in Linked}
    /\ \A k \in StatementIds : MapGet0(paidView, k) = Num(SumAmounts(LinkedTo(k)))
    /\ SumMap(paidView, DOMAIN paidView) = SumAmounts(Linked)

\* two payments with amounts are linked to one statement
C2_Witness ==
  /\ mounted
  /\ \E k \in StatementIds : Cardinality(LinkedTo(k)) >= 2 /\ SumAmounts(LinkedTo(k)) >= 2

RECURSIVE SumPending(_)
SumPending(rows) ==
  IF rows = {} THEN 0
  ELSE LET s == CHOOSE x \in rows : TRUE IN pendingView(s).v + SumPending(rows \ {s})

StatementsOf(c) == {s \in Range(statements) : s.card_id = c}

\* C3: a dashboard applies one clamp policy throughout: the rollup of a card
\* is the sum of the pending values the statement list shows for the
\* statements of that card, and every row of the upcoming-due list carries
\* the pending value the statement list shows for its statement.
C3_OnePolicyPerDashboard ==
  mounted =>
    /\ \A c \in CardIds \cup {OrphanCardId} :
         MapGet0(pendingByCardView, c) = Num(SumPending(StatementsOf(c)))
    /\ \A list \in upcomingDueView : \A i \in 1..Len(list) :
         \E s \in Range(statements) : s.id = list[i].id /\ list[i].pending = pendingView(s)

\* a card has two statements, one of them overpaid, and a statement with a
\* balance is in the upcoming-due list
C3_Witness ==
  /\ mounted
  /\ \E c \in CardIds :
       /\ Cardinality(StatementsOf(c)) >= 2
       /\ \E s \in StatementsOf(c) : IntOf(s.statement_amount) < SumAmounts(LinkedTo(s.id))
  /\ \E list \in upcomingDueView : \E i \in 1..Len(list) : list[i].pending.v > 0

\* the paid and pending values after the step against those before it, for
\* the listed payment p whose link the step set to new
RelinkPost(p, new) ==
  LET old == p.statement_id
      amt == IntOf(p.amount)
      delta(k) == (IF k = new THEN amt ELSE 0) - (IF k = old THEN amt ELSE 0)
      before == paidView
      after == paidView'
  IN /\ \A k \in StatementIds : MapGet0(after, k) = Num(MapGet0(before, k).v + delta(k))
     /\ \A s \in Range(statements) : s.id \notin {old, new} => pendingView(s)' = pendingView(s)
     /\ \E q \in Range(payments') :
          q.id = p.id /\ q.statement_id = new /\ q.amount = p.amount /\ q.card_id = p.card_id

\* C8: a step of updatePaymentStatement(p, new) with its reload lowers the
\* paid value of the payment's old statement by the payment's amount, raises
\* that of the new statement by it (nothing is raised when new is None), and
\* leaves the paid and pending values of the other statements and the
\* payment's amount and card unchanged.
C8_RelinkMovesAmount ==
  [][lastOp'.op = "updatePaymentStatement" =>
       \A i \in 1..Len(payments) :
         payments[i].id = lastOp'.id => RelinkPost(payments[i], lastOp'.to)]_vars

\* a payment with an amount was moved from one statement to another
C8_Witness ==
  /\ lastOp.op = "updatePaymentStatement"
  /\ lastOp.from # Null /\ lastOp.to # Null /\ lastOp.from # lastOp.to
  /\ \E p \in Range(payments) : p.statement_id = lastOp.to /\ IntOf(p.amount) > 0
  /\ MapGet0(paidView, lastOp.from).v > 0


\* the rows hold no amount that is a text
TypedBilled == \A x \in Range(statements) : x.statement_amount.t \in {"num", "null"}
TypedPaid == \A p \in Range(payments) : p.amount.t \in {"num", "null"}

RECURSIVE SumRollups(_)
SumRollups(cardIds) ==
  IF cardIds = {} THEN 0
  ELSE LET c == CHOOSE x \in cardIds : TRUE
       IN MapGet0(pendingByCardView, c).v + SumRollups(cardIds \ {c})

\* C4: for every snapshot of well-formed amounts, also one with a statement
\* whose card_id is no loaded card, totalPending is the sum of the rollups of
\* the loaded cards and is the sum of the pending of all statements.
C4_TotalPendingIsBothSums ==
  mounted /\ TypedBilled /\ TypedPaid =>
    /\ totalPendingView = Num(SumRollups({c.id : c \in Range(cards)}))
    /\ totalPendingView = Num(SumPending(Range(statements)))

\* the calendar day a date string names
DayOf(d) == DateLocal(d.y, d.m - 1, d.d)

Positive(n) == n.t = "num" /\ n.v > 0

\* the three conditions of the upcoming-due list
Qualifies(x) ==
  /\ ValidDate(x.due_date)
  /\ Positive(pendingView(x))
  /\ DayOf(asOfView) <= DayOf(x.due_date)
  /\ DayOf(x.due_date) <= DayOf(asOfView) + WindowDays

Listed(list) == {list[i].id : i \in 1..Len(list)}

\* C5: the upcoming-due list holds, once each, exactly the statements of the
\* snapshot whose due date is a valid date, whose pending is above 0 and
\* whose due date d has as-of <= d <= as-of + 30 days.
C5_UpcomingIffQualifies ==
  mounted =>
    \A list \in upcomingDueView :
      /\ Listed(list) = {x.id : x \in {y \in Range(statements) : Qualifies(y)}}
      /\ Cardinality(Listed(list)) = Len(list)

\* C6: at every UTC offset of the client, a statement with pending above 0
\* is listed when it is due on the as-of date and when it is due 30 days
\* after it, no statement due 31 days after it is listed, and no statement
\* with pending 0 is listed.
C6_WindowBoundaries ==
  mounted =>
    \A list \in upcomingDueView : \A x \in Range(statements) :
      /\ ValidDate(x.due_date) /\ Positive(pendingView(x))
           /\ DayOf(x.due_date) \in {DayOf(asOfView), DayOf(asOfView) + WindowDays}
           => x.id \in Listed(list)
      /\ ValidDate(x.due_date) /\ DayOf(x.due_date) = DayOf(asOfView) + WindowDays + 1
           => x.id \notin Listed(list)
      /\ pendingView(x) = Num(0) => x.id \notin Listed(list)

\* the order of the statement identifiers
IdRank(id) == IF id = "S1" THEN 1 ELSE 2

\* C7: the upcoming-due list is ascending by due date, rows of one due date
\* are in the order of their statement identifiers, and so the list is the
\* same for every order of the snapshot.
C7_SortedByDueThenId ==
  mounted =>
    /\ \A list \in upcomingDueView : \A i, j \in 1..Len(list) :
         i < j => \/ StrLess(list[i].due_date, list[j].due_date)
                  \/ /\ list[i].due_date = list[j].due_date
                     /\ IdRank(list[i].id) < IdRank(list[j].id)
    /\ Cardinality(upcomingDueView) = 1

\* C9: a payment whose amount is absent or no number counts 0: the paid
\* value of every statement is the sum of the well-formed amounts linked to
\* it, and with well-formed billed amounts every pending value and the total
\* are numbers.
C9_MalformedPaymentCountsZero ==
  mounted =>
    /\ \A k \in StatementIds : MapGet0(paidView, k) = Num(SumAmounts(LinkedTo(k)))
    /\ TypedBilled =>
         /\ \A x \in Range(statements) : isFinite(pendingView(x))
         /\ isFinite(totalPendingView)

\* C10: a statement whose billed amount is absent or no number counts as
\* billed 0: with well-formed payments its pending is that of billed 0, and
\* every rollup and the total are numbers.
C10_MalformedBilledCountsZero ==
  mounted /\ TypedPaid =>
    /\ \A x \in Range(statements) :
         LET due == IntOf(x.statement_amount) - MapGet0(paidView, x.id).v
         IN pendingView(x) = Num(IF Clamps THEN Max0(due) ELSE due)
    /\ \A c \in DOMAIN pendingByCardView : isFinite(pendingByCardView[c])
    /\ isFinite(totalPendingView)

\* billed - paid of a statement from the rows of the snapshot, under the
\* clamp policy of the open page
PendingOfRows(x) ==
  LET due == IntOf(x.statement_amount) - SumAmounts(LinkedTo(x.id))
  IN IF Clamps THEN Max0(due) ELSE due

RECURSIVE SumPendingOfRows(_)
SumPendingOfRows(rows) ==
  IF rows = {} THEN 0
  ELSE LET x == CHOOSE y \in rows : TRUE IN PendingOfRows(x) + SumPendingOfRows(rows \ {x})

\* the Pending line of a card in the card list: pendingByCard.get(c.id) ?? 0
cardPendingView(c) == MapGet0(pendingByCardView, c)

\* C11: the rollup of a card is the sum of the pending of every statement
\* with that card_id, with or without a due date, and a card without
\* statements shows 0.
C11_RollupCoversEveryStatement ==
  mounted =>
    /\ \A c \in CardIds : cardPendingView(c) = Num(SumPendingOfRows(StatementsOf(c)))
    /\ DOMAIN pendingByCardView = {x.card_id : x \in Range(statements)}

\* a statement without a due date has a balance and is in no upcoming-due
\* list, and a card has no statement
C11_Witness ==
  /\ mounted
  /\ \E x \in Range(statements) :
       /\ x.due_date = NoDate /\ PendingOfRows(x) > 0
       /\ cardPendingView(x.card_id).v >= PendingOfRows(x)
       /\ \A list \in upcomingDueView : x.id \notin Listed(list)
  /\ \E c \in CardIds : StatementsOf(c) = {} /\ cardPendingView(c) = Num(0)

RECURSIVE SumLimits(_)
SumLimits(rows) ==
  IF rows = {} THEN 0
  ELSE LET c == CHOOSE x \in rows : TRUE IN IntOf(c.credit_limit) + SumLimits(rows \ {c})

\* C12: totalLimit is the sum of the credit limits of the loaded cards, a
\* limit that is absent or no number counting 0, and is 0 without cards;
\* totalPending is 0 without statements.
C12_TotalLimitIsSumOfLimits ==
  mounted =>
    /\ totalLimitView = Num(SumLimits(Range(cards)))
    /\ statements = <<>> => totalPendingView = Num(0)

\* the state of the open page: its snapshot and its date fields
pageState == <<page, mounted, cards, statements, payments, payDate, mountedToday>>

\* what the aggregators answer when they are invoked in the current state
outputs == <<paidView, pendingByCardView, totalPendingView, totalLimitView, upcomingDueView>>

\* C13: the paid map, the rollups, the totals and the upcoming-due list are
\* functions of the snapshot and the as-of date the page holds: invoked again
\* while the page's state is unchanged they answer the same, whatever the
\* system clock did in between.
C13_OutputsIgnoreTheClock ==
  [][mounted /\ pageState' = pageState => outputs' = outputs]_vars

\* the statements whose due date is present and names a calendar date
DatedRows == {x \in Range(statements) : ValidDate(x.due_date)}

\* C14: a statement whose due date is absent or names no calendar date (a
\* day or month out of range) is in no upcoming-due list, and the total
\* pending is the sum over all statements whatever their due dates.
C14_InvalidDueDateIsNotListed ==
  mounted =>
    /\ \A list \in upcomingDueView : Listed(list) \subseteq {x.id : x \in DatedRows}
    /\ totalPendingView = Num(SumPendingOfRows(Range(statements)))

\* C15: every row of the upcoming-due list carries a day-offset, the number
\* of calendar days from the as-of date to the row's due date (0 when due on
\* the as-of date, k when due k days later).
C15_RowsCarryDayOffset ==
  mounted =>
    \A list \in upcomingDueView : \A i \in 1..Len(list) :
      /\ "days" \in DOMAIN list[i]
      /\ list[i].days = DayOf(list[i].due_date) - DayOf(asOfView)

\* C17: for every date string YYYY-MM-DD each of the four normalizers returns
\* YYYY-MM-01 with the same year and month, and a normalizer applied to its
\* own result returns the result unchanged
C17_NormalizersGiveMonthStart ==
  call.fn \in Normalizers /\ call.arg \in DateTexts =>
    /\ call.res = MonthStart(slice(call.arg, 0, 4), slice(call.arg, 5, 7))
    /\ Normalize(call.fn, call.res) = call.res

paidOf(q) ==
  IF page = "D1" THEN D1_paidByStatement(q)
  ELSE IF page = "D2" THEN D2_paidMap(q)
  ELSE D3_paidByStatement(q)

\* the orders in which the loaded payments can be processed
Reorderings(q) == {r \in [1..Len(q) -> Range(q)] : Range(r) = Range(q)}

\* C18: the paid map does not depend on the order in which the payments are
\* processed: every permutation of the payments gives the same paid entries,
\* and so the same pending amounts
C18_PaidMapIgnoresOrder ==
  mounted =>
    \A q \in Reorderings(payments) :
      /\ paidOf(q) = paidView
      /\ \A s \in Range(statements) :
           (IF page = "D1" THEN D1_pending(s, paidOf(q))
            ELSE IF page = "D2" THEN D2_pending(s, paidOf(q))
            ELSE D3_pending(s, paidOf(q))) = pendingView(s)

\* C19: worked example. With card C1 (limit 5000), its statement S1 (billed
\* 1200, due 2025-01-20), payment P1 of 700 linked to S1 and the as-of date
\* 2025-01-10: paid of S1 is 700, its pending is 500, the upcoming-due list is
\* exactly S1 with pending 500 and day offset 10, totalPending is 500 and
\* totalLimit is 5000
C19_WorkedExample ==
  /\ mounted
  /\ cards = <<ExampleCard>>
  /\ statements = <<ExampleStatement>>
  /\ payments = <<ExamplePayment>>
  /\ asOfView = DateStr(2025, 1, 10)
  => /\ paidView = ("S1" :> Num(700))
     /\ pendingView(ExampleStatement) = Num(500)
     /\ \A list \in upcomingDueView :
          /\ Len(list) = 1
          /\ list[1].id = "S1"
          /\ list[1].pending = Num(500)
          /\ "days" \in DOMAIN list[1]
          /\ list[1].days = 10
     /\ totalPendingView = Num(500)
     /\ totalLimitView = Num(5000)

\* C20: on the payments page every LOAN or PERSONAL payment is stored with
\* statement_id = null and card_id = null, and the control that re-links a
\* payment is offered for CARD payments only
C20_OnlyCardPaymentsLink ==
  /\ \A p \in dbPayments : p.kind \in {"LOAN", "PERSONAL"} => p.statement_id = Null /\ p.card_id = Null
  /\ mounted => \A i \in 1..Len(payments) :
       payments[i].kind # "CARD" => ~PAY_selectShown(payments[i]) /\ PAY_stOptions(payments[i]) = {""}
  /\ lastOp.op = "updatePaymentStatement" => \A p \in dbPayments : p.id = lastOp.id => p.kind = "CARD"

\* a loan payment was added while a card with a statement was selected in the
\* form, and a card payment was re-linked
C20_Witness ==
  /\ \E p \in InsertedPayments(dbPayments) :
       p.kind = "LOAN" /\ p.loan_id = "L1" /\ p.card_id = Null /\ p.statement_id = Null
  /\ payForm.cardId = "C1"
  /\ FirstOfCard(statements, payForm.cardId) = "S1"
  /\ lastOp.op = "updatePaymentStatement" /\ lastOp.id = "P1"

\* C28: a save in edit mode modifies the statement that is being edited and
\* creates no other statement: after the save the edited statement holds the
\* saved month and the number of stored statements is unchanged
C28_EditSaveKeepsTheRow ==
  [][lastOp'.op = "saveStatement" /\ lastOp'.id # "" =>
       /\ lastOp'.to = lastOp'.id
       /\ Cardinality(dbStatements') = Cardinality(dbStatements)]_vars

\* C21: a reload replaces the snapshot as a whole: a step either leaves the
\* three collections of the view as they were or sets all three from the
\* store as read by one reload; a failed read leaves no snapshot in which
\* only some collections were replaced
C21_SnapshotIsReplacedWhole ==
  [][\/ cards' = cards /\ statements' = statements /\ payments' = payments
     \/ Range(cards') = dbCards' /\ Range(statements') = dbStatements' /\ Range(payments') = dbPayments']_vars

\* C22: on the payments page every CARD payment that onAdd inserted with a
\* statement_id references a statement of the payment's own card
C22_InsertedLinkIsOfTheCard ==
  \A p \in InsertedPayments(dbPayments) :
    p.kind = "CARD" /\ p.statement_id # Null =>
      \E x \in dbStatements : x.id = p.statement_id /\ x.card_id = p.card_id

\* C23: for the same stored data the paid and pending values a dashboard
\* shows for a statement are those the statements page shows for it: they
\* count every stored payment linked to the statement, however many payments
\* the user has
C23_DashboardMatchesStatementsPage ==
  mounted /\ page \in Pages =>
    \A x \in Range(statements) :
      /\ MapGet0(paidView, x.id) = ST_paid(x)
      /\ pendingView(x) = ST_pending(x)

\* C24: in the first dashboard, whenever savePayment or saveCard in edit mode
\* reports success ("Payment updated." / "Card updated."), the store holds
\* the edited row with the submitted values, also when the row was deleted
\* between startEdit and the save
C24_UpdatedRowIsStored ==
  [][/\ lastOp'.op = "savePayment" /\ lastOp'.to = "Payment updated." =>
          \E p \in dbPayments' :
            /\ p.id = lastOp'.id
            /\ p.card_id = forms.payCardId
            /\ p.statement_id = (IF Truthy(forms.payStatementId) THEN forms.payStatementId ELSE Null)
            /\ p.payment_date = payDate
            /\ p.amount = safeNum(forms.payAmount)
     /\ lastOp'.op = "saveCard" /\ lastOp'.to = "Card updated." =>
          \E c \in dbCards' :
            /\ c.id = lastOp'.id
            /\ c.name = forms.cName
            /\ c.credit_limit = safeNum(forms.cLimit)]_vars

\* C26: in the first dashboard the upcoming-due list is anchored at today's
\* date: the payment-form operations (the date field, startEditPayment,
\* resetPaymentForm, savePayment) leave the as-of date of the window
\* unchanged, and with it the list of an unchanged snapshot
C26_FormKeepsTheAsOfDate ==
  [][page = "D1" /\ mounted =>
       /\ asOfView' = asOfView
       /\ statements' = statements /\ payments' = payments => upcomingDueView' = upcomingDueView]_vars

\* C25: the multi-step deletes are all-or-nothing: when deleteStatement or
\* the second dashboard's deleteCard reports an error at any step, no stored
\* payment, statement or card has changed; on success no stored payment
\* references the deleted statement or card
C25_DeletesAreAllOrNothing ==
  [][lastOp'.op \in {"deleteStatement", "deleteCard"} =>
       IF lastOp'.to # ""
       THEN dbPayments' = dbPayments /\ dbStatements' = dbStatements /\ dbCards' = dbCards
       ELSE \A p \in dbPayments' : p.statement_id # lastOp'.id /\ p.card_id # lastOp'.id]_vars

\* the listed cards and statements without those of soft-deleted cards
IsLiveCard(c) == \A d \in dbCards : d.id = c.id => d.deleted_at = NoDate

OfLiveCard(x) == \A d \in dbCards : d.id = x.card_id => d.deleted_at = NoDate

LiveCards == SelectSeq(cards, IsLiveCard)

LiveStatements == SelectSeq(statements, OfLiveCard)

LiveTotalLimit ==
  IF page = "D1" THEN D1_totals(LiveCards, D1_pendingByCard(LiveStatements, paidView)).totalLimit
  ELSE IF page = "D2" THEN D2_totalLimit(LiveCards)
  ELSE D3_totalLimit(LiveCards)

LiveTotalPending ==
  IF page = "D1" THEN D1_totals(LiveCards, D1_pendingByCard(LiveStatements, paidView)).totalPending
  ELSE IF page = "D2" THEN D2_totalPending(D2_pendingByCard(LiveStatements, paidView))
  ELSE D3_totalPending(LiveStatements, paidView)

\* the page shows no soft-deleted card and counts none
SoftDeletedAreGone ==
  /\ LiveCards = cards
  /\ page \in Pages => totalLimitView = LiveTotalLimit /\ totalPendingView = LiveTotalPending

\* C27: once a card is soft-deleted (deleted_at set), a page that loads
\* after that does not list it, and in a dashboard it adds nothing to
\* totalLimit and totalPending
C27_SoftDeletedCardIsGone ==
  [][lastOp'.op = "mount" \/ (lastOp'.op = "onDelete" /\ lastOp'.to = "") => SoftDeletedAreGone']_vars

\* C29: in the first dashboard, after the Payment button of card c is
\* clicked on the Cards tab, the Payments tab is shown with the payment form
\* in add mode (editingPaymentId empty), payCardId = c.id and payStatementId
\* empty
C29_PaymentButtonPicksTheCard ==
  [][lastOp'.op = "cardPayment" =>
       /\ forms'.tab = "PAYMENTS"
       /\ forms'.editingPaymentId = ""
       /\ forms'.payCardId = lastOp'.id
       /\ forms'.payStatementId = ""]_vars

====
